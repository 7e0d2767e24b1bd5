---------------------------- MODULE ThreadsSteps ----------------------------
(***************************************************************************)
(* What schedule (), the run queue and the wait lists do to Threads'       *)
(* inductive invariant IInv, and one lemma for each operation: it          *)
(* preserves IInv.                                                         *)
(***************************************************************************)
EXTENDS Threads, ListLemmas

USE SMTT(30), Zenon

(* A time slice is at least one tick. *)
LEMMA ZeroTick == 0 \in 0..TIME_SLICE /\ 0 # TIME_SLICE /\ ~(0 > 0)
  BY ThreadsAssumption

(* The pages of the initial and the idle thread, and the null pointer. *)
LEMMA Pages ==
  /\ Main \in Thread /\ Idle \in Thread /\ Main # Idle
  /\ NULL \notin Thread /\ NULL \notin Sema /\ IdleStarted \in Sema
  BY ThreadsAssumption

(* What RunQueueOK says of the run queue rl under the states st. *)
QueueMatches(st, rl) ==
  /\ rl \in Seq(Thread)
  /\ IsInjective(rl)
  /\ \A t \in Thread : t \in Range(rl) <=> st[t] = "READY" /\ t # idle_thread

(* schedule () picks a READY thread, or the idle thread when none is, and  *)
(* leaves a run queue that matches the threads' states.                    *)
LEMMA ScheduleFacts ==
  ASSUME running \in Thread, idle_thread \in {NULL, Idle}
  PROVE  \A st \in [Thread -> Statuses], rl \in Seq(Thread) :
           /\ QueueMatches(st, rl)
           /\ \A t \in Thread : st[t] # "RUNNING"
           /\ rl = <<>> => idle_thread = Idle
           /\ st[Idle] # "DYING"
           /\ Schedule(st, rl)
           => /\ running' \in Thread
              /\ thread_ticks' = 0
              /\ status' \in [Thread -> Statuses]
              /\ QueueMatches(status', ready_list')
              /\ \A t \in Thread : status'[t] = "RUNNING" <=> t = running'
              /\ st[running'] = "READY" \/ (running' = Idle /\ idle_thread = Idle)
              /\ \A t \in Thread \ {running'} : status'[t] =
                    IF t = running /\ t # Main /\ st[t] = "DYING" THEN "FREE" ELSE st[t]
<1> TAKE st \in [Thread -> Statuses], rl \in Seq(Thread)
<1> HAVE /\ QueueMatches(st, rl)
         /\ \A t \in Thread : st[t] # "RUNNING"
         /\ rl = <<>> => idle_thread = Idle
         /\ st[Idle] # "DYING"
         /\ Schedule(st, rl)
<1> USE Pages
<1>1. CASE rl = <<>>
  <2>1. running' = Idle /\ idle_thread = Idle /\ ready_list' = <<>> /\ thread_ticks' = 0
    BY <1>1 DEF Schedule
  <2>2. Range(rl) = {} /\ IsInjective(rl)
    BY <1>1, EmptyList
  <2>3. \A t \in Thread : status'[t] = IF t = Idle THEN "RUNNING"
           ELSE IF t = running /\ t # Main /\ st[t] = "DYING" THEN "FREE" ELSE st[t]
    BY <1>1, <2>1 DEF Schedule
  <2>4. status' \in [Thread -> Statuses]
    BY <1>1, <2>1 DEF Schedule, Statuses
  <2>5. QED
    BY <1>1, <2>1, <2>2, <2>3, <2>4 DEF QueueMatches
<1>2. CASE rl # <<>>
  <2>1. /\ Head(rl) \in Thread /\ Head(rl) \in Range(rl)
        /\ Tail(rl) \in Seq(Thread) /\ IsInjective(Tail(rl))
        /\ Range(Tail(rl)) = Range(rl) \ {Head(rl)}
    BY <1>2, PopFront DEF QueueMatches
  <2>2. running' = Head(rl) /\ ready_list' = Tail(rl) /\ thread_ticks' = 0
    BY <1>2 DEF Schedule
  <2>3. \A t \in Thread : status'[t] = IF t = Head(rl) THEN "RUNNING"
           ELSE IF t = running /\ t # Main /\ st[t] = "DYING" THEN "FREE" ELSE st[t]
    BY <1>2, <2>1 DEF Schedule
  <2>4. status' \in [Thread -> Statuses]
    BY <1>2, <2>1 DEF Schedule, Statuses
  <2>5. st[Head(rl)] = "READY" /\ Head(rl) # idle_thread
    BY <2>1 DEF QueueMatches
  <2>6. QED
    BY <1>2, <2>1, <2>2, <2>3, <2>4, <2>5 DEF QueueMatches
<1>3. QED
  BY <1>1, <1>2

(* Until the idle thread has named itself it is READY or running, so that  *)
(* schedule () never meets an empty queue and a null idle_thread.          *)
LEMMA HasNext ==
  ASSUME IInv, running # Idle \/ idle_thread = Idle
  PROVE  ready_list = <<>> => idle_thread = Idle
<1>1. SUFFICES ASSUME idle_thread = NULL, ready_list = <<>> PROVE FALSE
  BY DEF IInv, TypeOK
<1>2. pc[Idle] = "idle_start" /\ status[Idle] \in Statuses /\ status[Idle] # "RUNNING"
  BY <1>1, ThreadsAssumption DEF IInv, TypeOK, CallsOK, RunQueueOK
<1>3. status[Idle] # "BLOCKED"
  BY <1>2, ThreadsAssumption DEF IInv, WaitListsOK, BlockedOK
<1>4. status[Idle] = "READY"
  BY <1>2, <1>3, ThreadsAssumption DEF IInv, CallsOK, Statuses
<1>5. Idle \in Range(ready_list)
  BY <1>1, <1>4, ThreadsAssumption DEF IInv, RunQueueOK
<1>6. QED
  BY <1>1, <1>5, EmptyList

(* thread_block (): the caller is BLOCKED, unless it is the idle thread    *)
(* and is picked again.                                                    *)
LEMMA BlockFacts ==
  ASSUME IInv, Block, running # Idle \/ idle_thread = Idle
  PROVE  /\ running' \in Thread
         /\ thread_ticks' = 0
         /\ status' \in [Thread -> Statuses]
         /\ QueueMatches(status', ready_list')
         /\ \A t \in Thread : status'[t] = "RUNNING" <=> t = running'
         /\ (status[running'] = "READY" /\ running' # running) \/ running' = Idle
         /\ \A t \in Thread \ {running'} :
               status'[t] = IF t = running THEN "BLOCKED" ELSE status[t]
<1> DEFINE st == [status EXCEPT ![running] = "BLOCKED"]
<1>1. running \in Thread /\ idle_thread \in {NULL, Idle} /\ ready_list \in Seq(Thread)
  BY DEF IInv, TypeOK
<1>2. st \in [Thread -> Statuses] /\ st[running] = "BLOCKED"
      /\ \A t \in Thread \ {running} : st[t] = status[t]
  BY <1>1 DEF IInv, TypeOK, Statuses
<1>3. \A t \in Thread : status[t] = "RUNNING" <=> t = running
  BY DEF IInv, RunQueueOK
<1>4. Idle \in Thread /\ pc[Idle] # "dead" /\ status[Idle] # "DYING"
  BY ThreadsAssumption DEF IInv, CallsOK
<1>5. Schedule(st, ready_list)
  BY DEF Block
<1> HIDE DEF st
<1>6. QueueMatches(st, ready_list)
  BY <1>1, <1>2, <1>3 DEF IInv, RunQueueOK, QueueMatches
<1>7. ready_list = <<>> => idle_thread = Idle
  BY HasNext
<1>8. st[Idle] # "DYING" /\ \A t \in Thread : st[t] # "RUNNING" /\ (t = running => st[t] # "DYING")
  BY <1>2, <1>3, <1>4
<1>9. /\ running' \in Thread
      /\ thread_ticks' = 0
      /\ status' \in [Thread -> Statuses]
      /\ QueueMatches(status', ready_list')
      /\ \A t \in Thread : status'[t] = "RUNNING" <=> t = running'
      /\ st[running'] = "READY" \/ (running' = Idle /\ idle_thread = Idle)
      /\ \A t \in Thread \ {running'} : status'[t] =
            IF t = running /\ t # Main /\ st[t] = "DYING" THEN "FREE" ELSE st[t]
  BY <1>1, <1>2, <1>5, <1>6, <1>7, <1>8, ScheduleFacts
<1>10. QED
  BY <1>2, <1>8, <1>9

(* The running thread, and any thread schedule () can pick, waits nowhere. *)
LEMMA AwakeFacts ==
  ASSUME IInv, NEW u \in Thread,
         status[u] \in {"RUNNING", "READY"} \/ u = Idle
  PROVE  /\ pc[u] \notin {"sleep", "new", "leaked", "dead"}
         /\ status[u] # "BLOCKED" => \A r \in Sema : u \notin Range(waiters[r])
         /\ u = Idle => \A r \in Sema : u \notin Range(waiters[r])
         /\ u \notin Range(sleepList)
<1>1. pc[u] \notin {"sleep", "new", "leaked", "dead"}
  <2>1. CASE u = Idle
    BY <2>1 DEF IInv, CallsOK
  <2>2. CASE status[u] \in {"RUNNING", "READY"}
    BY <2>2 DEF IInv, CallsOK, WaitListsOK, BlockedOK
  <2>3. QED
    BY <2>1, <2>2
<1>2. u = Idle => pc[u] # "down"
  BY DEF IInv, CallsOK
<1>3. QED
  BY <1>1, <1>2 DEF IInv, WaitListsOK, SemaListsOK, SleepListOK

(* The running thread is in no list, and is in idle () only if it is the   *)
(* idle thread.                                                            *)
LEMMA RunningFacts ==
  ASSUME IInv
  PROVE  /\ running \in Thread
         /\ status[running] = "RUNNING"
         /\ \A t \in Thread : status[t] = "RUNNING" <=> t = running
         /\ pc[running] \notin {"sleep", "new", "leaked", "dead"}
         /\ \A r \in Sema : running \notin Range(waiters[r])
         /\ running \notin Range(sleepList)
         /\ running \notin Range(ready_list)
         /\ running = Idle <=>
              pc[running] \in {"idle_start", "idle_up", "idle_block", "idle_hlt"}
<1>1. running \in Thread /\ \A t \in Thread : status[t] = "RUNNING" <=> t = running
  BY DEF IInv, TypeOK, RunQueueOK
<1>2. running \notin Range(ready_list)
  BY <1>1 DEF IInv, RunQueueOK
<1>3. QED
  BY <1>1, <1>2, AwakeFacts DEF IInv, CallsOK

(* The wait lists still match the threads when neither the lists nor the   *)
(* threads blocked in each sema_down change.                               *)
LEMMA WaitersKept ==
  ASSUME IInv, waiters' = waiters,
         \A r \in Sema, t \in Thread :
            status'[t] = "BLOCKED" /\ pc'[t] = "down" /\ arg'[t] = r <=>
            status[t] = "BLOCKED" /\ pc[t] = "down" /\ arg[t] = r
  PROVE  SemaListsOK'
<1>1. SemaListsOK
  BY Zenon DEF IInv, WaitListsOK
<1>2. ASSUME NEW r \in Sema
      PROVE  /\ IsInjective(waiters'[r])
             /\ \A t \in Thread : t \in Range(waiters'[r]) <=>
                  status'[t] = "BLOCKED" /\ pc'[t] = "down" /\ arg'[t] = r
  <2>1. /\ IsInjective(waiters[r])
        /\ \A t \in Thread : t \in Range(waiters[r]) <=>
             status[t] = "BLOCKED" /\ pc[t] = "down" /\ arg[t] = r
    BY <1>1, Zenon DEF SemaListsOK
  <2>2. QED
    BY <2>1, Zenon
<1>3. QED
  BY <1>2, Zenon DEF SemaListsOK

(* What CallsOK says of the calls in progress survives a step that starts  *)
(* none.                                                                   *)
LEMMA CallsKept ==
  ASSUME IInv, sleepTick' = sleepTick, idle_thread' = idle_thread,
         \A t \in Thread :
            /\ pc'[t] = "down" => arg'[t] \in Sema
            /\ pc'[t] = "create" => pc[t] = pc'[t] /\ arg'[t] = arg[t]
            /\ pc'[t] = "sleep" => pc[t] = "sleep"
            /\ pc[t] = "new" => pc'[t] = "new"
            /\ pc'[t] = "idle_start" <=> pc[t] = "idle_start"
            /\ pc'[t] \in {"idle_start", "idle_up", "idle_block", "idle_hlt"} <=>
               pc[t] \in {"idle_start", "idle_up", "idle_block", "idle_hlt"}
  PROVE  /\ \A t \in Thread :
              /\ pc'[t] = "down" => arg'[t] \in Sema
              /\ pc'[t] = "create" => arg'[t] \in Thread /\ pc'[arg'[t]] = "new"
              /\ pc'[t] \in {"idle_start", "idle_up", "idle_block", "idle_hlt"} <=> t = Idle
              /\ pc'[t] = "sleep" => sleepTick'[t] > 0
         /\ \A t, u \in Thread :
              pc'[t] = "create" /\ pc'[u] = "create" /\ arg'[t] = arg'[u] => t = u
         /\ idle_thread' = NULL <=> pc'[Idle] = "idle_start"
<1>1. /\ \A t \in Thread :
           /\ pc[t] = "create" => arg[t] \in Thread /\ pc[arg[t]] = "new"
           /\ pc[t] \in {"idle_start", "idle_up", "idle_block", "idle_hlt"} <=> t = Idle
           /\ pc[t] = "sleep" => sleepTick[t] > 0
      /\ \A t, u \in Thread :
           pc[t] = "create" /\ pc[u] = "create" /\ arg[t] = arg[u] => t = u
      /\ idle_thread = NULL <=> pc[Idle] = "idle_start"
  BY DEF IInv, CallsOK
<1>2. ASSUME NEW t \in Thread
      PROVE  /\ pc'[t] = "down" => arg'[t] \in Sema
             /\ pc'[t] \in {"idle_start", "idle_up", "idle_block", "idle_hlt"} <=> t = Idle
             /\ pc'[t] = "sleep" => sleepTick'[t] > 0
  BY <1>1
<1>3. ASSUME NEW t \in Thread, pc'[t] = "create"
      PROVE  pc[t] = "create" /\ arg'[t] = arg[t] /\ arg'[t] \in Thread /\ pc'[arg'[t]] = "new"
  BY <1>1, <1>3
<1>4. ASSUME NEW t \in Thread, NEW u \in Thread,
             pc'[t] = "create", pc'[u] = "create", arg'[t] = arg'[u]
      PROVE  t = u
  BY <1>1, <1>3, <1>4
<1>5. idle_thread' = NULL <=> pc'[Idle] = "idle_start"
  BY <1>1, ThreadsAssumption
<1>6. QED
  BY <1>2, <1>3, <1>4, <1>5, Zenon

----------------------------------------------------------------------------
(* A thread that calls, and one that retries, sema_down. *)
LEMMA SemaDownTurnStep ==
  ASSUME IInv, NEW s \in Sema, SemaDownTurn(s),
         cursor = 0, pc[running] \in {"kernel", "down"}
  PROVE  IInv'
<1> USE Pages
<1>0. /\ running \in Thread /\ running # Idle /\ status[running] = "RUNNING"
      /\ running \notin Range(waiters[s])
  BY RunningFacts
<1>1. CASE value[s] = 0
  <2>1. /\ waiters' = [waiters EXCEPT ![s] = Append(@, running)]
        /\ Block
        /\ Goto("down", s)
        /\ UNCHANGED <<value, idle_thread, clock, alarm>>
    BY <1>1 DEF SemaDownTurn
  <2>2. /\ running' \in Thread
        /\ thread_ticks' = 0
        /\ status' \in [Thread -> Statuses]
        /\ QueueMatches(status', ready_list')
        /\ \A t \in Thread : status'[t] = "RUNNING" <=> t = running'
        /\ (status[running'] = "READY" /\ running' # running) \/ running' = Idle
        /\ \A t \in Thread \ {running'} :
              status'[t] = IF t = running THEN "BLOCKED" ELSE status[t]
    BY <1>0, <2>1, BlockFacts
  <2>3. waiters[s] \in Seq(Thread) /\ IsInjective(waiters[s])
    BY DEF IInv, TypeOK, WaitListsOK, SemaListsOK
  <2>4. /\ Append(waiters[s], running) \in Seq(Thread)
        /\ Range(Append(waiters[s], running)) = Range(waiters[s]) \cup {running}
        /\ IsInjective(Append(waiters[s], running))
    BY <1>0, <2>3, PushBack
  <2>5. /\ waiters' \in [Sema -> Seq(Thread)]
        /\ IsInjective(waiters'[s])
        /\ Range(waiters'[s]) = Range(waiters[s]) \cup {running}
        /\ \A r \in Sema \ {s} : waiters'[r] = waiters[r]
    BY <2>1, <2>4 DEF IInv, TypeOK
  <2>6. /\ pc' \in [Thread -> PCs] /\ pc'[running] = "down" /\ arg'[running] = s
        /\ arg' \in [Thread -> Sema \cup Thread \cup {NULL}]
        /\ \A t \in Thread \ {running} : pc'[t] = pc[t] /\ arg'[t] = arg[t]
    BY <1>0, <2>1, Zenon DEF Goto, IInv, TypeOK, PCs
  <2>7. TypeOK'
    <3>1. thread_ticks' \in 0..TIME_SLICE /\ ready_list' \in Seq(Thread)
      BY <2>2, ZeroTick DEF QueueMatches
    <3>2. QED
      BY <2>1, <2>2, <2>5, <2>6, <3>1, Zenon DEF IInv, TypeOK, clock, alarm
  <2>8. RunQueueOK'
    BY <2>1, <2>2 DEF RunQueueOK, QueueMatches
  <2>9. /\ running' # running /\ pc[running'] \notin {"sleep", "new", "leaked"}
        /\ \A r \in Sema : running' \notin Range(waiters[r])
    BY <1>0, <2>2, AwakeFacts
  <2>10. \A t \in Thread : status'[t] = "BLOCKED" <=>
            t = running \/ (status[t] = "BLOCKED" /\ t # running')
    BY <1>0, <2>2, <2>9
  <2>11. SemaListsOK'
    <3>1. ASSUME NEW r \in Sema
          PROVE  /\ IsInjective(waiters'[r])
                 /\ \A t \in Thread : t \in Range(waiters'[r]) <=>
                      status'[t] = "BLOCKED" /\ pc'[t] = "down" /\ arg'[t] = r
      <4>1. /\ IsInjective(waiters[r])
            /\ \A t \in Thread : t \in Range(waiters[r]) <=>
                      status[t] = "BLOCKED" /\ pc[t] = "down" /\ arg[t] = r
        BY DEF IInv, WaitListsOK, SemaListsOK
      <4>2. CASE r = s
        <5>1. IsInjective(waiters'[r]) /\ \A t \in Thread :
                t \in Range(waiters'[r]) <=> t = running \/ t \in Range(waiters[r])
          BY <2>5, <4>2
        <5>2. \A t \in Thread : pc'[t] = "down" /\ arg'[t] = r <=>
                t = running \/ (pc[t] = "down" /\ arg[t] = r)
          BY <2>6, <4>2
        <5>3. QED
          BY <2>9, <2>10, <4>1, <5>1, <5>2
      <4>3. CASE r # s
        BY <1>0, <2>5, <2>6, <2>9, <2>10, <4>1, <4>3
      <4>4. QED
        BY <4>2, <4>3
    <3>2. QED
      BY <3>1 DEF SemaListsOK
  <2>12. SleepListOK'
    BY <1>0, <2>1, <2>6 DEF IInv, WaitListsOK, SleepListOK, alarm
  <2>13. BlockedOK'
    BY <1>0, <2>6, <2>9, <2>10 DEF IInv, WaitListsOK, BlockedOK
  <2>14. CallsOK'
    <3>1. /\ sleepTick' = sleepTick /\ idle_thread' = idle_thread /\ cursor' = cursor
      BY <2>1 DEF clock, alarm
    <3>2. \A t \in Thread : pc'[t] = "dead" <=> status'[t] \in {"FREE", "DYING"}
      BY <1>0, <2>2, <2>6 DEF IInv, CallsOK
    <3>3. ASSUME NEW t \in Thread
          PROVE  /\ pc'[t] = "create" => pc[t] = pc'[t] /\ arg'[t] = arg[t]
                 /\ pc'[t] = "down" => arg'[t] \in Sema
                 /\ pc'[t] = "sleep" => pc[t] = "sleep"
                 /\ pc[t] = "new" => pc'[t] = "new"
                 /\ pc'[t] = "idle_start" <=> pc[t] = "idle_start"
                 /\ pc'[t] \in {"idle_start", "idle_up", "idle_block", "idle_hlt"} <=>
                    pc[t] \in {"idle_start", "idle_up", "idle_block", "idle_hlt"}
      BY <1>0, <2>6 DEF IInv, CallsOK
    <3>4. thread_ticks' # TIME_SLICE /\ ~(cursor' > 0)
      BY <1>0, <2>2, <3>1, ZeroTick
    <3>5. QED
      BY <3>1, <3>2, <3>3, <3>4, CallsKept, Zenon DEF CallsOK
  <2>15. QED
    BY <2>7, <2>8, <2>11, <2>12, <2>13, <2>14 DEF IInv, WaitListsOK
<1>2. CASE value[s] > 0
  <2>1. /\ value' = [value EXCEPT ![s] = @ - 1]
        /\ Goto("kernel", NULL)
        /\ UNCHANGED <<waiters, sched, idle_thread, clock, alarm>>
    BY <1>2 DEF SemaDownTurn
  <2>2. value' \in [Sema -> 0..MaxValue]
    <3>1. value \in [Sema -> 0..MaxValue] /\ value[s] \in 0..MaxValue
      BY DEF IInv, TypeOK
    <3>2. value[s] - 1 \in 0..MaxValue
      BY <1>2, <3>1, ThreadsAssumption
    <3>3. QED
      BY <2>1, <3>1, <3>2
  <2>3. /\ pc' \in [Thread -> PCs] /\ pc'[running] = "kernel"
        /\ arg' \in [Thread -> Sema \cup Thread \cup {NULL}]
        /\ \A t \in Thread \ {running} : pc'[t] = pc[t] /\ arg'[t] = arg[t]
    BY <1>0, <2>1, Zenon DEF Goto, IInv, TypeOK, PCs
  <2>4. TypeOK'
    BY <2>1, <2>2, <2>3, Zenon DEF IInv, TypeOK, sched, clock, alarm
  <2>5. RunQueueOK'
    BY <2>1 DEF IInv, RunQueueOK, sched
  <2>6. /\ waiters' = waiters /\ status' = status /\ running' = running
        /\ sleepList' = sleepList /\ sleepTick' = sleepTick /\ idle_thread' = idle_thread
        /\ thread_ticks' = thread_ticks /\ cursor' = cursor
        /\ yield_on_return' = yield_on_return
    BY <2>1 DEF sched, clock, alarm
  <2>7. SemaListsOK'
    <3>1. ASSUME NEW r \in Sema, NEW t \in Thread
          PROVE  status'[t] = "BLOCKED" /\ pc'[t] = "down" /\ arg'[t] = r <=>
                 status[t] = "BLOCKED" /\ pc[t] = "down" /\ arg[t] = r
      BY <1>0, <2>3, <2>6
    <3>2. QED
      BY <2>6, <3>1, WaitersKept, Zenon
  <2>8. SleepListOK' /\ BlockedOK'
    BY <1>0, <2>3, <2>6 DEF IInv, WaitListsOK, SleepListOK, BlockedOK
  <2>9. CallsOK'
    <3>1. \A t \in Thread : pc'[t] = "dead" <=> status'[t] \in {"FREE", "DYING"}
      BY <1>0, <2>3, <2>6 DEF IInv, CallsOK
    <3>2. ASSUME NEW t \in Thread
          PROVE  /\ pc'[t] = "down" => arg'[t] \in Sema
                 /\ pc'[t] = "create" => pc[t] = pc'[t] /\ arg'[t] = arg[t]
                 /\ pc'[t] = "sleep" => pc[t] = "sleep"
                 /\ pc[t] = "new" => pc'[t] = "new"
                 /\ pc'[t] = "idle_start" <=> pc[t] = "idle_start"
                 /\ pc'[t] \in {"idle_start", "idle_up", "idle_block", "idle_hlt"} <=>
                    pc[t] \in {"idle_start", "idle_up", "idle_block", "idle_hlt"}
      BY <1>0, <2>3 DEF IInv, CallsOK
    <3>3. /\ thread_ticks' = TIME_SLICE => cursor' > 0 /\ yield_on_return'
          /\ cursor' > 0 => pc'[running'] # "idle_hlt"
      BY <2>3, <2>6 DEF IInv, CallsOK
    <3>4. sleepTick' = sleepTick /\ idle_thread' = idle_thread
      BY <2>6
    <3>5. QED
      BY <3>1, <3>2, <3>3, <3>4, CallsKept, Zenon DEF CallsOK
  <2>10. QED
    BY <2>4, <2>5, <2>7, <2>8, <2>9 DEF IInv, WaitListsOK
<1>3. QED
  BY <1>1, <1>2 DEF SemaDownTurn

----------------------------------------------------------------------------
(* thread_unblock () of a blocked thread keeps the run queue right. *)
LEMMA UnblockFacts ==
  ASSUME IInv, NEW u \in Thread, status[u] = "BLOCKED", u # idle_thread, Unblock(u)
  PROVE  /\ running' = running /\ thread_ticks' = thread_ticks
         /\ status' \in [Thread -> Statuses]
         /\ QueueMatches(status', ready_list')
         /\ \A t \in Thread : status'[t] = "RUNNING" <=> t = running
         /\ status'[u] = "READY"
         /\ \A t \in Thread \ {u} : status'[t] = status[t]
<1>1. /\ ready_list \in Seq(Thread) /\ IsInjective(ready_list)
      /\ \A t \in Thread : t \in Range(ready_list) <=> status[t] = "READY" /\ t # idle_thread
      /\ \A t \in Thread : status[t] = "RUNNING" <=> t = running
  BY DEF IInv, TypeOK, RunQueueOK
<1>2. /\ running' = running /\ thread_ticks' = thread_ticks
      /\ status' \in [Thread -> Statuses]
      /\ status'[u] = "READY"
      /\ \A t \in Thread \ {u} : status'[t] = status[t]
  BY DEF Unblock, IInv, TypeOK, Statuses
<1>3. u \notin Range(ready_list)
  BY <1>1
<1>4. /\ ready_list' \in Seq(Thread) /\ IsInjective(ready_list')
      /\ Range(ready_list') = Range(ready_list) \cup {u}
  BY <1>1, <1>3, PushBack DEF Unblock
<1>5. QueueMatches(status', ready_list')
  BY <1>1, <1>2, <1>4 DEF QueueMatches
<1>6. \A t \in Thread : status'[t] = "RUNNING" <=> t = running
  BY <1>1, <1>2
<1>7. QED
  BY <1>2, <1>5, <1>6

(* sema_up (): the thread it wakes leaves the wait list and becomes READY; *)
(* nothing else changes in the lists.                                      *)
LEMMA UpFacts ==
  ASSUME IInv, NEW s \in Sema, Up(s)
  PROVE  /\ running' = running /\ thread_ticks' = thread_ticks
         /\ value' \in [Sema -> 0..MaxValue]
         /\ waiters' \in [Sema -> Seq(Thread)]
         /\ status' \in [Thread -> Statuses]
         /\ QueueMatches(status', ready_list')
         /\ \A t \in Thread : status'[t] = "RUNNING" <=> t = running
         /\ \A t \in Thread : status'[t] = status[t] \/
               (status[t] = "BLOCKED" /\ status'[t] = "READY" /\ pc[t] = "down")
         /\ \A r \in Sema : /\ IsInjective(waiters'[r])
                             /\ \A t \in Thread : t \in Range(waiters'[r]) <=>
                                  status'[t] = "BLOCKED" /\ pc[t] = "down" /\ arg[t] = r
<1> USE Pages
<1>1. value' \in [Sema -> 0..MaxValue]
  <2>1. value \in [Sema -> 0..MaxValue] /\ value[s] < MaxValue /\ value[s] \in 0..MaxValue
    BY DEF IInv, TypeOK, Up
  <2>2. value[s] + 1 \in 0..MaxValue
    BY <2>1, ThreadsAssumption
  <2>3. QED
    BY <2>1, <2>2 DEF Up
<1>2. \A r \in Sema : /\ IsInjective(waiters[r])
                      /\ \A t \in Thread : t \in Range(waiters[r]) <=>
                           status[t] = "BLOCKED" /\ pc[t] = "down" /\ arg[t] = r
  BY DEF IInv, WaitListsOK, SemaListsOK
<1>3. waiters \in [Sema -> Seq(Thread)] /\ waiters[s] \in Seq(Thread)
  BY DEF IInv, TypeOK
<1>4. CASE waiters[s] = <<>>
  <2>1. waiters' = waiters /\ UNCHANGED sched
    BY <1>4 DEF Up, WakesOne
  <2>2. /\ status' = status /\ running' = running /\ ready_list' = ready_list
        /\ thread_ticks' = thread_ticks
    BY <2>1 DEF sched
  <2>3. QueueMatches(status', ready_list') /\ status' \in [Thread -> Statuses]
        /\ \A t \in Thread : status'[t] = "RUNNING" <=> t = running
    BY <2>2 DEF IInv, TypeOK, RunQueueOK, QueueMatches
  <2>4. QED
    BY <1>1, <1>2, <1>3, <2>1, <2>2, <2>3
<1>5. CASE waiters[s] # <<>>
  <2> DEFINE u == Head(waiters[s])
  <2>1. /\ waiters' = [waiters EXCEPT ![s] = Tail(@)]
        /\ Unblock(u)
    BY <1>5 DEF Up, WakesOne
  <2>2. /\ u \in Thread /\ u \in Range(waiters[s])
        /\ Tail(waiters[s]) \in Seq(Thread) /\ IsInjective(Tail(waiters[s]))
        /\ Range(Tail(waiters[s])) = Range(waiters[s]) \ {u}
    BY <1>2, <1>3, <1>5, PopFront
  <2> HIDE DEF u
  <2>3. status[u] = "BLOCKED" /\ pc[u] = "down" /\ arg[u] = s
    BY <1>2, <2>2
  <2>4. u # idle_thread
    <3>1. idle_thread \in {NULL, Idle}
      BY DEF IInv, TypeOK
    <3>2. Idle \in Thread /\ pc[Idle] # "down"
      BY DEF IInv, CallsOK
    <3>3. QED
      BY <2>2, <2>3, <3>1, <3>2
  <2>5. /\ running' = running /\ thread_ticks' = thread_ticks
        /\ status' \in [Thread -> Statuses]
        /\ QueueMatches(status', ready_list')
        /\ \A t \in Thread : status'[t] = "RUNNING" <=> t = running
        /\ status'[u] = "READY"
        /\ \A t \in Thread \ {u} : status'[t] = status[t]
    BY <2>1, <2>2, <2>3, <2>4, UnblockFacts
  <2>6. /\ waiters' \in [Sema -> Seq(Thread)]
        /\ waiters'[s] = Tail(waiters[s])
        /\ \A r \in Sema \ {s} : waiters'[r] = waiters[r]
    BY <1>3, <2>1, <2>2
  <2>7. ASSUME NEW r \in Sema
        PROVE  /\ IsInjective(waiters'[r])
               /\ \A t \in Thread : t \in Range(waiters'[r]) <=>
                    status'[t] = "BLOCKED" /\ pc[t] = "down" /\ arg[t] = r
    <3>1. /\ IsInjective(waiters[r])
          /\ \A t \in Thread : t \in Range(waiters[r]) <=>
               status[t] = "BLOCKED" /\ pc[t] = "down" /\ arg[t] = r
      BY <1>2
    <3>2. \A t \in Thread : status'[t] = "BLOCKED" <=> status[t] = "BLOCKED" /\ t # u
      BY <2>2, <2>5
    <3>3. CASE r = s
      <4>1. waiters'[r] = Tail(waiters[s]) /\ Range(waiters'[r]) = Range(waiters[r]) \ {u}
        BY <2>2, <2>6, <3>3, Zenon
      <4>2. QED
        BY <2>2, <3>1, <3>2, <4>1
    <3>4. CASE r # s
      <4>1. waiters'[r] = waiters[r]
        BY <2>6, <3>4
      <4>2. QED
        BY <2>3, <3>1, <3>2, <3>4, <4>1
    <3>5. QED
      BY <3>3, <3>4
  <2>8. QED
    BY <1>1, <2>3, <2>5, <2>6, <2>7
<1>6. QED
  BY <1>4, <1>5

----------------------------------------------------------------------------
(* A step that changes nothing but, at the end of an interrupt, the        *)
(* interrupt's own state.                                                  *)
LEMMA QuietStep ==
  ASSUME IInv, UNCHANGED <<sched, idle_thread, sema, ticks, alarm, pc, arg>>,
         \/ UNCHANGED <<cursor, yield_on_return>>
         \/ cursor' = 0 /\ yield_on_return' = FALSE /\ thread_ticks # TIME_SLICE
  PROVE  IInv'
<1>1. /\ status' = status /\ running' = running /\ ready_list' = ready_list
      /\ thread_ticks' = thread_ticks /\ idle_thread' = idle_thread
      /\ value' = value /\ waiters' = waiters /\ ticks' = ticks
      /\ sleepList' = sleepList /\ sleepTick' = sleepTick /\ deadline' = deadline
      /\ pc' = pc /\ arg' = arg
  BY DEF sched, sema, alarm
<1>2. cursor' \in Nat /\ yield_on_return' \in BOOLEAN
  <2>1. cursor \in Nat /\ yield_on_return \in BOOLEAN /\ 0 \in Nat
    BY DEF IInv, TypeOK
  <2>2. QED
    BY <2>1, Zenon
<1>3. TypeOK'
  BY <1>1, <1>2, Zenon DEF IInv, TypeOK
<1>4. RunQueueOK'
  BY <1>1, Zenon DEF IInv, RunQueueOK
<1>5. SemaListsOK'
  BY <1>1, WaitersKept, Zenon
<1>6. SleepListOK'
  BY <1>1, Zenon DEF IInv, WaitListsOK, SleepListOK
<1>7. BlockedOK'
  BY <1>1, Zenon DEF IInv, WaitListsOK, BlockedOK
<1>8. CallsOK'
  <2>1. \A t \in Thread :
          /\ pc[t] = "dead" <=> status[t] \in {"FREE", "DYING"}
          /\ pc[t] = "down" => arg[t] \in Sema
    BY DEF IInv, CallsOK
  <2>2. /\ thread_ticks' = TIME_SLICE => cursor' > 0 /\ yield_on_return'
        /\ cursor' > 0 => pc'[running'] # "idle_hlt"
    BY <1>1, ZeroTick DEF IInv, CallsOK
  <2>3. /\ \A t \in Thread :
             /\ pc'[t] = "dead" <=> status'[t] \in {"FREE", "DYING"}
             /\ pc'[t] = "down" => arg'[t] \in Sema
        /\ sleepTick' = sleepTick /\ idle_thread' = idle_thread
    BY <1>1, <2>1
  <2>4. QED
    BY <1>1, <2>2, <2>3, CallsKept, Zenon DEF CallsOK
<1>9. QED
  BY <1>3, <1>4, <1>5, <1>6, <1>7, <1>8, Zenon DEF IInv, WaitListsOK

(* A step that leaves the scheduler and every list alone. *)
LEMMA SemaTryDownStep ==
  ASSUME IInv, NEW s \in Sema, SemaTryDown(s)
  PROVE  IInv'
<1> USE Pages
<1>1. /\ value[s] > 0
      /\ value' = [value EXCEPT ![s] = @ - 1]
      /\ UNCHANGED <<waiters, sched, idle_thread, clock, alarm, pc, arg>>
  BY DEF SemaTryDown
<1>2. value' \in [Sema -> 0..MaxValue]
  <2>1. value \in [Sema -> 0..MaxValue] /\ value[s] \in 0..MaxValue
    BY DEF IInv, TypeOK
  <2>2. value[s] - 1 \in 0..MaxValue
    BY <1>1, <2>1, ThreadsAssumption
  <2>3. QED
    BY <1>1, <2>1, <2>2
<1>3. TypeOK'
  BY <1>1, <1>2, Zenon DEF IInv, TypeOK, sched, clock, alarm
<1>4. RunQueueOK'
  BY <1>1 DEF IInv, RunQueueOK, sched
<1>5. WaitListsOK'
  BY <1>1 DEF IInv, WaitListsOK, SemaListsOK, SleepListOK, BlockedOK, sched, alarm
<1>6. CallsOK'
  BY <1>1 DEF IInv, CallsOK, sched, clock, alarm
<1>7. QED
  BY <1>3, <1>4, <1>5, <1>6 DEF IInv

----------------------------------------------------------------------------
(* thread_create: the new page is in no list while it is initialised. *)
LEMMA ThreadCreateStep ==
  ASSUME IInv, NEW n \in Thread, ThreadCreate(n)
  PROVE  IInv'
<1> USE Pages
<1>1. /\ cursor = 0 /\ pc[running] = "kernel" /\ status[n] = "FREE"
      /\ status' = [status EXCEPT ![n] = "BLOCKED"]
      /\ sleepTick' = [sleepTick EXCEPT ![n] = 0]
      /\ pc' = [pc EXCEPT ![running] = "create", ![n] = "new"]
      /\ arg' = [arg EXCEPT ![running] = n, ![n] = NULL]
      /\ UNCHANGED <<running, ready_list, thread_ticks, idle_thread, sema, clock,
                     sleepList, deadline>>
  BY DEF ThreadCreate, At
<1>2. /\ value' = value /\ waiters' = waiters /\ ticks' = ticks /\ cursor' = cursor
      /\ yield_on_return' = yield_on_return
  BY <1>1 DEF sema, clock
<1>3. /\ running \in Thread /\ status[running] = "RUNNING" /\ running # n
      /\ pc[n] = "dead" /\ n # Idle /\ running # Idle
  BY <1>1, RunningFacts DEF IInv, CallsOK
<1>4. /\ status' \in [Thread -> Statuses] /\ status'[n] = "BLOCKED"
      /\ \A t \in Thread \ {n} : status'[t] = status[t]
  BY <1>1 DEF IInv, TypeOK, Statuses
<1>5. /\ pc' \in [Thread -> PCs] /\ pc'[n] = "new" /\ pc'[running] = "create"
      /\ \A t \in Thread \ {n, running} : pc'[t] = pc[t]
  BY <1>1, <1>3, Zenon DEF IInv, TypeOK, PCs
<1>6. /\ arg' \in [Thread -> Sema \cup Thread \cup {NULL}] /\ arg'[running] = n
      /\ \A t \in Thread \ {n, running} : arg'[t] = arg[t]
  BY <1>1, <1>3, Zenon DEF IInv, TypeOK
<1>7. /\ sleepTick' \in [Thread -> 0..MaxSleep]
      /\ \A t \in Thread \ {n} : sleepTick'[t] = sleepTick[t]
  BY <1>1, ThreadsAssumption DEF IInv, TypeOK
<1>8. TypeOK'
  BY <1>1, <1>2, <1>4, <1>5, <1>6, <1>7, Zenon DEF IInv, TypeOK
<1>9. RunQueueOK'
  BY <1>1, <1>3, <1>4 DEF IInv, RunQueueOK
<1>10. SemaListsOK'
  <2>1. ASSUME NEW r \in Sema, NEW t \in Thread
        PROVE  status'[t] = "BLOCKED" /\ pc'[t] = "down" /\ arg'[t] = r <=>
               status[t] = "BLOCKED" /\ pc[t] = "down" /\ arg[t] = r
    BY <1>1, <1>3, <1>4, <1>5, <1>6
  <2>2. QED
    BY <1>2, <2>1, WaitersKept, Zenon
<1>11. SleepListOK'
  <2>1. \A t \in Thread : pc'[t] = "sleep" <=> pc[t] = "sleep"
    BY <1>1, <1>3, <1>5
  <2>2. QED
    BY <1>1, <2>1, Zenon DEF IInv, WaitListsOK, SleepListOK
<1>12. BlockedOK'
  BY <1>1, <1>3, <1>4, <1>5, Zenon DEF IInv, WaitListsOK, BlockedOK
<1>13. CallsOK'
  <2>1. \A t \in Thread :
          /\ pc[t] = "dead" <=> status[t] \in {"FREE", "DYING"}
          /\ pc[t] = "down" => arg[t] \in Sema
          /\ pc[t] = "create" => arg[t] \in Thread /\ pc[arg[t]] = "new"
          /\ pc[t] \in {"idle_start", "idle_up", "idle_block", "idle_hlt"} <=> t = Idle
          /\ pc[t] = "sleep" => sleepTick[t] > 0
    BY DEF IInv, CallsOK
  <2>2. \A t \in Thread \ {running} : pc'[t] = "create" =>
          pc[t] = "create" /\ arg'[t] = arg[t] /\ arg[t] # n /\ arg[t] # running
    BY <1>1, <1>3, <1>5, <1>6, <2>1
  <2>3. ASSUME NEW t \in Thread
        PROVE  /\ pc'[t] = "dead" <=> status'[t] \in {"FREE", "DYING"}
               /\ pc'[t] = "down" => arg'[t] \in Sema
               /\ pc'[t] = "create" => arg'[t] \in Thread /\ pc'[arg'[t]] = "new"
               /\ pc'[t] \in {"idle_start", "idle_up", "idle_block", "idle_hlt"} <=> t = Idle
               /\ pc'[t] = "sleep" => sleepTick'[t] > 0
    <3>1. CASE t = n
      BY <1>3, <1>4, <1>5, <3>1
    <3>2. CASE t = running
      BY <1>3, <1>4, <1>5, <1>6, <3>2
    <3>3. CASE t # n /\ t # running
      BY <1>4, <1>5, <1>6, <1>7, <2>1, <2>2, <3>3
    <3>4. QED
      BY <3>1, <3>2, <3>3
  <2>4. \A t, u \in Thread :
          pc'[t] = "create" /\ pc'[u] = "create" /\ arg'[t] = arg'[u] => t = u
    <3>1. \A t, u \in Thread :
             pc[t] = "create" /\ pc[u] = "create" /\ arg[t] = arg[u] => t = u
      BY DEF IInv, CallsOK
    <3>2. QED
      BY <1>5, <1>6, <2>2, <3>1
  <2>5. /\ idle_thread' = NULL <=> pc'[Idle] = "idle_start"
        /\ thread_ticks' = TIME_SLICE => cursor' > 0 /\ yield_on_return'
        /\ cursor' > 0 => pc'[running'] # "idle_hlt"
    BY <1>1, <1>2, <1>3, <1>5 DEF IInv, CallsOK
  <2>6. QED
    BY <2>3, <2>4, <2>5 DEF CallsOK
<1>14. QED
  BY <1>8, <1>9, <1>10, <1>11, <1>12, <1>13 DEF IInv, WaitListsOK

(* The end of thread_create: both threads go on, the new one from READY,   *)
(* or its page is forgotten.                                               *)
LEMMA ThreadCreateEndStep ==
  ASSUME IInv, ThreadCreateDone \/ ThreadCreateFail
  PROVE  IInv'
<1> USE Pages
<1> DEFINE n == arg[running]
           p == IF status'[n] = "BLOCKED" THEN "leaked" ELSE "kernel"
<1>1. cursor = 0 /\ pc[running] = "create"
  BY DEF ThreadCreateDone, ThreadCreateFail, At
<1>2. running \in Thread /\ status[running] = "RUNNING" /\ running # Idle
  BY <1>1, RunningFacts
<1>3. n \in Thread /\ pc[n] = "new"
  BY <1>1, <1>2 DEF IInv, CallsOK
<1>4. n # Idle /\ n # running /\ status[n] = "BLOCKED"
  BY <1>1, <1>3 DEF IInv, CallsOK, WaitListsOK, BlockedOK
<1>5. n # idle_thread
  BY <1>3, <1>4 DEF IInv, TypeOK
<1>6. /\ UNCHANGED <<idle_thread, sema, clock, alarm, running, thread_ticks>>
      /\ arg' = [arg EXCEPT ![running] = NULL]
  BY DEF ThreadCreateDone, ThreadCreateFail, Unblock, sched
<1>7. /\ value' = value /\ waiters' = waiters /\ ticks' = ticks /\ cursor' = cursor
      /\ yield_on_return' = yield_on_return /\ sleepList' = sleepList
      /\ sleepTick' = sleepTick /\ deadline' = deadline
      /\ idle_thread' = idle_thread /\ running' = running /\ thread_ticks' = thread_ticks
  BY <1>6 DEF sema, clock, alarm
<1>8. /\ status' \in [Thread -> Statuses]
      /\ QueueMatches(status', ready_list')
      /\ \A t \in Thread : status'[t] = "RUNNING" <=> t = running
      /\ status'[n] \in {"READY", "BLOCKED"}
      /\ \A t \in Thread \ {n} : status'[t] = status[t]
      /\ pc' = [pc EXCEPT ![running] = "kernel", ![n] = p]
  <2>1. CASE ThreadCreateDone
    <3>1. Unblock(n) /\ pc' = [pc EXCEPT ![running] = "kernel", ![n] = "kernel"]
      BY <2>1 DEF ThreadCreateDone
    <3> HIDE DEF n
    <3>2. /\ status' \in [Thread -> Statuses]
          /\ QueueMatches(status', ready_list')
          /\ \A t \in Thread : status'[t] = "RUNNING" <=> t = running
          /\ status'[n] = "READY"
          /\ \A t \in Thread \ {n} : status'[t] = status[t]
      BY <1>3, <1>4, <1>5, <3>1, UnblockFacts
    <3>3. QED
      BY <3>1, <3>2
  <2>2. CASE ThreadCreateFail
    <3>1. /\ status' = status /\ ready_list' = ready_list
          /\ pc' = [pc EXCEPT ![running] = "kernel", ![n] = "leaked"]
      BY <2>2 DEF ThreadCreateFail, sched
    <3> HIDE DEF n
    <3>2. QED
      BY <1>3, <1>4, <3>1 DEF IInv, TypeOK, RunQueueOK, QueueMatches
  <2>3. QED
    BY <2>1, <2>2
<1>9. /\ \A t \in Thread : pc[t] = "create" => arg[t] \in Thread /\ pc[arg[t]] = "new"
      /\ \A t, u \in Thread :
             pc[t] = "create" /\ pc[u] = "create" /\ arg[t] = arg[u] => t = u
  BY DEF IInv, CallsOK
<1>10. \A t \in Thread \ {running} : pc[t] = "create" => arg[t] # n
  BY <1>1, <1>2, <1>9
<1> HIDE DEF n
<1>11. /\ pc' \in [Thread -> PCs] /\ pc'[n] = p /\ pc'[running] = "kernel"
       /\ \A t \in Thread \ {n, running} : pc'[t] = pc[t]
  BY <1>2, <1>3, <1>4, <1>8, Zenon DEF IInv, TypeOK, PCs
<1>12. /\ arg' \in [Thread -> Sema \cup Thread \cup {NULL}]
       /\ \A t \in Thread \ {running} : arg'[t] = arg[t]
  BY <1>2, <1>6 DEF IInv, TypeOK
<1>13. p \in {"leaked", "kernel"} /\ (p = "leaked" <=> status'[n] = "BLOCKED")
  OBVIOUS
<1> HIDE DEF p
<1>14. TypeOK'
  BY <1>7, <1>8, <1>11, <1>12, Zenon DEF IInv, TypeOK, QueueMatches
<1>15. RunQueueOK'
  BY <1>7, <1>8 DEF RunQueueOK, QueueMatches
<1>16. ASSUME NEW t \in Thread
       PROVE  /\ pc'[t] = "sleep" <=> pc[t] = "sleep"
              /\ pc'[t] = "dead" <=> pc[t] = "dead"
              /\ pc'[t] = "down" <=> pc[t] = "down"
              /\ pc[t] = "down" => status'[t] = status[t] /\ arg'[t] = arg[t]
              /\ pc'[t] = "create" => pc[t] = "create" /\ t # running /\ t # n
  BY <1>1, <1>3, <1>8, <1>11, <1>12, <1>13
<1>17. SemaListsOK'
  BY <1>7, <1>16 DEF IInv, WaitListsOK, SemaListsOK
<1>18. SleepListOK'
  BY <1>7, <1>16 DEF IInv, WaitListsOK, SleepListOK
<1>19. BlockedOK'
  <2>1. \A t \in Thread :
          /\ status[t] = "BLOCKED" => pc[t] \in {"down", "sleep", "new", "leaked", "idle_hlt"}
          /\ pc[t] \in {"sleep", "new", "leaked"} => status[t] = "BLOCKED"
          /\ pc[t] = "idle_hlt" /\ t # running => status[t] = "BLOCKED"
    BY DEF IInv, WaitListsOK, BlockedOK
  <2>2. ASSUME NEW t \in Thread
        PROVE  /\ status'[t] = "BLOCKED" => pc'[t] \in {"down", "sleep", "new", "leaked", "idle_hlt"}
               /\ pc'[t] \in {"sleep", "new", "leaked"} => status'[t] = "BLOCKED"
               /\ pc'[t] = "idle_hlt" /\ t # running => status'[t] = "BLOCKED"
    <3>1. CASE t = n
      BY <1>8, <1>11, <1>13, <3>1
    <3>2. CASE t = running
      BY <1>8, <1>11, <3>2
    <3>3. CASE t # n /\ t # running
      BY <1>8, <1>11, <2>1, <3>3
    <3>4. QED
      BY <3>1, <3>2, <3>3
  <2>3. QED
    BY <1>7, <2>2 DEF BlockedOK
<1>20. CallsOK'
  <2>1. \A t \in Thread :
          /\ pc[t] = "dead" <=> status[t] \in {"FREE", "DYING"}
          /\ pc[t] = "down" => arg[t] \in Sema
          /\ pc[t] \in {"idle_start", "idle_up", "idle_block", "idle_hlt"} <=> t = Idle
          /\ pc[t] = "sleep" => sleepTick[t] > 0
    BY DEF IInv, CallsOK
  <2>2. ASSUME NEW t \in Thread
        PROVE  /\ pc'[t] = "dead" <=> status'[t] \in {"FREE", "DYING"}
               /\ pc'[t] = "down" => arg'[t] \in Sema
               /\ pc'[t] \in {"idle_start", "idle_up", "idle_block", "idle_hlt"} <=> t = Idle
               /\ pc'[t] = "sleep" => sleepTick'[t] > 0
    <3>1. CASE t = n
      BY <1>4, <1>8, <1>11, <1>13, <3>1
    <3>2. CASE t = running
      BY <1>2, <1>8, <1>11, <3>2, Zenon
    <3>3. CASE t # n /\ t # running
      BY <1>7, <1>8, <1>11, <1>12, <2>1, <3>3
    <3>4. QED
      BY <3>1, <3>2, <3>3
  <2>3. ASSUME NEW t \in Thread, pc'[t] = "create"
        PROVE  arg'[t] \in Thread /\ pc'[arg'[t]] = "new" /\ arg'[t] = arg[t]
    <3>1. t # running /\ pc[t] = "create" /\ arg'[t] = arg[t]
      BY <1>12, <1>16, <2>3
    <3>2. arg[t] \in Thread /\ pc[arg[t]] = "new" /\ arg[t] # n /\ arg[t] # running
      BY <1>1, <1>9, <1>10, <3>1
    <3>3. QED
      BY <1>11, <3>1, <3>2
  <2>4. \A t, u \in Thread :
          pc'[t] = "create" /\ pc'[u] = "create" /\ arg'[t] = arg'[u] => t = u
    BY <1>9, <1>16, <2>3
  <2>5. /\ idle_thread' = NULL <=> pc'[Idle] = "idle_start"
        /\ thread_ticks' = TIME_SLICE => cursor' > 0 /\ yield_on_return'
        /\ cursor' > 0 => pc'[running'] # "idle_hlt"
    BY <1>1, <1>2, <1>4, <1>7, <1>11 DEF IInv, CallsOK
  <2>6. QED
    BY <2>2, <2>3, <2>4, <2>5, Zenon DEF CallsOK
<1>21. QED
  BY <1>14, <1>15, <1>17, <1>18, <1>19, <1>20 DEF IInv, WaitListsOK

----------------------------------------------------------------------------
(* timer_sleep: the caller enters sleepList and blocks. *)
LEMMA ThreadSleepStep ==
  ASSUME IInv, NEW n \in 1..MaxSleep, ThreadSleep(n)
  PROVE  IInv'
<1> USE Pages
<1>1. /\ cursor = 0 /\ pc[running] = "kernel"
      /\ sleepTick' = [sleepTick EXCEPT ![running] = n]
      /\ sleepList' = Append(sleepList, running)
      /\ deadline' = [deadline EXCEPT ![running] = (ticks + n) % TickMod]
      /\ Block
      /\ Goto("sleep", NULL)
      /\ UNCHANGED <<idle_thread, sema, clock>>
  BY DEF ThreadSleep, At
<1>2. /\ value' = value /\ waiters' = waiters /\ ticks' = ticks /\ cursor' = 0
      /\ yield_on_return' = yield_on_return /\ idle_thread' = idle_thread
  BY <1>1 DEF sema, clock
<1>3. /\ running \in Thread /\ running # Idle /\ status[running] = "RUNNING"
      /\ running \notin Range(sleepList)
  BY <1>1, RunningFacts, Zenon
<1>4. /\ running' \in Thread
      /\ thread_ticks' = 0
      /\ status' \in [Thread -> Statuses]
      /\ QueueMatches(status', ready_list')
      /\ \A t \in Thread : status'[t] = "RUNNING" <=> t = running'
      /\ (status[running'] = "READY" /\ running' # running) \/ running' = Idle
      /\ \A t \in Thread \ {running'} :
            status'[t] = IF t = running THEN "BLOCKED" ELSE status[t]
  BY <1>1, <1>3, BlockFacts
<1>5. sleepList \in Seq(Thread) /\ IsInjective(sleepList)
  BY DEF IInv, TypeOK, WaitListsOK, SleepListOK
<1>6. /\ sleepList' \in Seq(Thread) /\ IsInjective(sleepList')
      /\ Range(sleepList') = Range(sleepList) \cup {running}
  BY <1>1, <1>3, <1>5, PushBack
<1>7. /\ pc' \in [Thread -> PCs] /\ pc'[running] = "sleep"
      /\ arg' \in [Thread -> Sema \cup Thread \cup {NULL}]
      /\ \A t \in Thread \ {running} : pc'[t] = pc[t] /\ arg'[t] = arg[t]
  BY <1>1, <1>3, Zenon DEF Goto, IInv, TypeOK, PCs
<1>8. /\ sleepTick' \in [Thread -> 0..MaxSleep] /\ sleepTick'[running] > 0
      /\ \A t \in Thread \ {running} : sleepTick'[t] = sleepTick[t]
  <2>1. sleepTick \in [Thread -> 0..MaxSleep] /\ n \in 0..MaxSleep /\ n > 0
    BY DEF IInv, TypeOK
  <2>2. QED
    BY <1>1, <1>3, <2>1
<1>9. deadline' \in [Thread -> 0..TickMod-1]
  <2>1. (ticks + n) \in Nat
    BY DEF IInv, TypeOK
  <2>2. (ticks + n) % TickMod \in 0..TickMod-1
    BY <2>1, ThreadsAssumption
  <2>3. deadline \in [Thread -> 0..TickMod-1]
    BY DEF IInv, TypeOK
  <2>4. QED
    BY <1>1, <2>2, <2>3, Zenon
<1>10. TypeOK'
  <2>1. thread_ticks' \in 0..TIME_SLICE /\ ready_list' \in Seq(Thread) /\ cursor' \in Nat
    BY <1>2, <1>4, ZeroTick DEF QueueMatches
  <2>2. QED
    BY <1>2, <1>4, <1>6, <1>7, <1>8, <1>9, <2>1, Zenon DEF IInv, TypeOK
<1>11. RunQueueOK'
  BY <1>2, <1>4, Zenon DEF RunQueueOK, QueueMatches
<1>12. /\ running' # running
       /\ pc[running'] \notin {"sleep", "new", "leaked", "dead"}
       /\ status[running'] = "BLOCKED" => pc[running'] # "down"
  BY <1>3, <1>4, AwakeFacts DEF IInv, CallsOK
<1>13. \A t \in Thread : status'[t] = "BLOCKED" <=>
          t = running \/ (status[t] = "BLOCKED" /\ t # running')
  BY <1>3, <1>4, <1>12, Zenon
<1>14. SemaListsOK'
  <2>1. ASSUME NEW r \in Sema, NEW t \in Thread
        PROVE  status'[t] = "BLOCKED" /\ pc'[t] = "down" /\ arg'[t] = r <=>
               status[t] = "BLOCKED" /\ pc[t] = "down" /\ arg[t] = r
    BY <1>3, <1>7, <1>12, <1>13
  <2>2. QED
    BY <1>2, <2>1, WaitersKept, Zenon
<1>15. SleepListOK'
  <2>1. \A t \in Thread : t \in Range(sleepList) <=> pc[t] = "sleep"
    BY Zenon DEF IInv, WaitListsOK, SleepListOK
  <2>2. QED
    BY <1>6, <1>7, <2>1 DEF SleepListOK
<1>16. BlockedOK'
  BY <1>3, <1>7, <1>12, <1>13, Zenon DEF IInv, WaitListsOK, BlockedOK
<1>17. CallsOK'
  <2>1. \A t \in Thread :
          /\ pc[t] = "dead" <=> status[t] \in {"FREE", "DYING"}
          /\ pc[t] = "down" => arg[t] \in Sema
          /\ pc[t] = "create" => arg[t] \in Thread /\ pc[arg[t]] = "new"
          /\ pc[t] \in {"idle_start", "idle_up", "idle_block", "idle_hlt"} <=> t = Idle
          /\ pc[t] = "sleep" => sleepTick[t] > 0
    BY DEF IInv, CallsOK
  <2>2. ASSUME NEW t \in Thread
        PROVE  /\ pc'[t] = "dead" <=> status'[t] \in {"FREE", "DYING"}
               /\ pc'[t] = "down" => arg'[t] \in Sema
               /\ pc'[t] = "create" => arg'[t] \in Thread /\ pc'[arg'[t]] = "new"
               /\ pc'[t] \in {"idle_start", "idle_up", "idle_block", "idle_hlt"} <=> t = Idle
               /\ pc'[t] = "sleep" => sleepTick'[t] > 0
    <3>1. CASE t = running
      BY <1>3, <1>7, <1>8, <1>12, <1>13, <3>1, Zenon
    <3>2. CASE t # running
      <4>1. status'[t] \in {"FREE", "DYING"} <=> status[t] \in {"FREE", "DYING"}
        <5>1. CASE t = running'
          BY <1>4, <1>12, <2>1, <5>1
        <5>2. CASE t # running'
          BY <1>4, <3>2, <5>2
        <5>3. QED
          BY <5>1, <5>2, Zenon
      <4>2. QED
        BY <1>1, <1>7, <1>8, <2>1, <3>2, <4>1
    <3>3. QED
      BY <3>1, <3>2
  <2>3. \A t, u \in Thread :
          pc'[t] = "create" /\ pc'[u] = "create" /\ arg'[t] = arg'[u] => t = u
    BY <1>7 DEF IInv, CallsOK
  <2>4. /\ idle_thread' = NULL <=> pc'[Idle] = "idle_start"
        /\ thread_ticks' # TIME_SLICE /\ cursor' = 0
    BY <1>2, <1>3, <1>4, <1>7, ZeroTick DEF IInv, CallsOK
  <2>5. QED
    BY <2>2, <2>3, <2>4 DEF CallsOK
<1>18. QED
  BY <1>10, <1>11, <1>14, <1>15, <1>16, <1>17 DEF IInv, WaitListsOK

(* idle () names itself before it can be picked off an empty run queue. *)
LEMMA IdleStartStep ==
  ASSUME IInv, IdleStart
  PROVE  IInv'
<1> USE Pages
<1>1. /\ cursor = 0 /\ pc[running] = "idle_start"
      /\ idle_thread' = running
      /\ Goto("idle_up", NULL)
      /\ UNCHANGED <<sched, sema, clock, alarm>>
  BY DEF IdleStart, At
<1>2. /\ value' = value /\ waiters' = waiters /\ ticks' = ticks /\ cursor' = cursor
      /\ yield_on_return' = yield_on_return /\ sleepList' = sleepList
      /\ sleepTick' = sleepTick /\ deadline' = deadline /\ status' = status
      /\ running' = running /\ ready_list' = ready_list /\ thread_ticks' = thread_ticks
  BY <1>1 DEF sched, sema, clock, alarm
<1>3. /\ running \in Thread /\ running = Idle /\ status[Idle] = "RUNNING"
      /\ idle_thread = NULL
  BY <1>1, RunningFacts, Zenon DEF IInv, CallsOK
<1>4. /\ pc' \in [Thread -> PCs] /\ pc'[Idle] = "idle_up"
      /\ arg' \in [Thread -> Sema \cup Thread \cup {NULL}]
      /\ \A t \in Thread \ {Idle} : pc'[t] = pc[t] /\ arg'[t] = arg[t]
  BY <1>1, <1>3 DEF Goto, IInv, TypeOK, PCs
<1>5. TypeOK'
  <2>1. idle_thread' \in {NULL, Idle}
    BY <1>1, <1>3
  <2>2. QED
    BY <1>2, <1>4, <2>1, Zenon DEF IInv, TypeOK
<1>6. RunQueueOK'
  BY <1>1, <1>2, <1>3, Zenon DEF IInv, RunQueueOK
<1>7. SemaListsOK'
  <2>1. ASSUME NEW r \in Sema, NEW t \in Thread
        PROVE  status'[t] = "BLOCKED" /\ pc'[t] = "down" /\ arg'[t] = r <=>
               status[t] = "BLOCKED" /\ pc[t] = "down" /\ arg[t] = r
    BY <1>2, <1>3, <1>4
  <2>2. QED
    BY <1>2, <2>1, WaitersKept, Zenon
<1>8. SleepListOK' /\ BlockedOK'
  <2>1. SleepListOK'
    <3>1. pc[Idle] = "idle_start"
      BY <1>1, <1>3
    <3>2. \A t \in Thread : pc'[t] = "sleep" <=> pc[t] = "sleep"
      BY <1>4, <3>1
    <3>3. QED
      BY <1>2, <3>2, Zenon DEF IInv, WaitListsOK, SleepListOK
  <2>2. BlockedOK'
    BY <1>2, <1>3, <1>4 DEF IInv, WaitListsOK, BlockedOK
  <2>3. QED
    BY <2>1, <2>2
<1>9. CallsOK'
  <2>1. \A t \in Thread :
          /\ pc[t] = "dead" <=> status[t] \in {"FREE", "DYING"}
          /\ pc[t] = "down" => arg[t] \in Sema
          /\ pc[t] = "create" => arg[t] \in Thread /\ pc[arg[t]] = "new"
          /\ pc[t] \in {"idle_start", "idle_up", "idle_block", "idle_hlt"} <=> t = Idle
          /\ pc[t] = "sleep" => sleepTick[t] > 0
    BY DEF IInv, CallsOK
  <2>6. \A t, u \in Thread :
          pc[t] = "create" /\ pc[u] = "create" /\ arg[t] = arg[u] => t = u
    BY DEF IInv, CallsOK
  <2>7. thread_ticks # TIME_SLICE
    BY <1>1 DEF IInv, CallsOK
  <2>2. ASSUME NEW t \in Thread
        PROVE  /\ pc'[t] = "dead" <=> status'[t] \in {"FREE", "DYING"}
               /\ pc'[t] = "down" => arg'[t] \in Sema
               /\ pc'[t] = "create" => arg'[t] \in Thread /\ pc'[arg'[t]] = "new"
               /\ pc'[t] \in {"idle_start", "idle_up", "idle_block", "idle_hlt"} <=> t = Idle
               /\ pc'[t] = "sleep" => sleepTick'[t] > 0
    <3>1. CASE t = Idle
      BY <1>2, <1>3, <1>4, <3>1, Zenon
    <3>2. CASE t # Idle
      <4>1. pc'[t] = pc[t] /\ arg'[t] = arg[t]
        BY <1>4, <3>2
      <4>2. pc[Idle] # "new" /\ (pc[t] = "create" => arg[t] \in Thread /\ pc[arg[t]] = "new")
        BY <1>1, <1>3, <2>1
      <4>3. pc'[t] = "create" => arg'[t] \in Thread /\ pc'[arg'[t]] = "new"
        BY <1>4, <4>1, <4>2
      <4>4. status'[t] = status[t] /\ sleepTick'[t] = sleepTick[t]
        BY <1>2
      <4>5. QED
        BY <2>1, <3>2, <4>1, <4>3, <4>4
    <3>3. QED
      BY <3>1, <3>2, Zenon
  <2>3. ASSUME NEW t \in Thread, NEW u \in Thread,
               pc'[t] = "create", pc'[u] = "create", arg'[t] = arg'[u]
        PROVE  t = u
    <3>1. t # Idle /\ u # Idle
      BY <1>4, <2>3
    <3>2. /\ pc[t] = "create" /\ pc[u] = "create"
          /\ arg[t] = arg[u]
      BY <1>4, <2>3, <3>1
    <3>3. QED
      BY <2>6, <3>2, Zenon
  <2>4. /\ idle_thread' # NULL /\ pc'[Idle] # "idle_start"
        /\ thread_ticks' # TIME_SLICE /\ ~(cursor' > 0)
    BY <1>1, <1>2, <1>3, <1>4, <2>7
  <2>5. QED
    BY <2>2, <2>3, <2>4, Zenon DEF CallsOK
<1>10. QED
  BY <1>5, <1>6, <1>7, <1>8, <1>9 DEF IInv, WaitListsOK

----------------------------------------------------------------------------
(* An interrupt takes the idle thread out of its hlt. *)
LEMMA EndHltFacts ==
  ASSUME IInv, EndHlt
  PROVE  /\ pc' \in [Thread -> PCs]
         /\ pc'[running] # "idle_hlt"
         /\ \A t \in Thread :
              \/ pc'[t] = pc[t]
              \/ t = running /\ t = Idle /\ pc[t] = "idle_hlt" /\ pc'[t] = "idle_block"
  BY RunningFacts DEF IInv, TypeOK, PCs, EndHlt

(* ticks++ and thread_tick (). *)
LEMMA TimerInterruptStep ==
  ASSUME IInv, TimerInterrupt
  PROVE  IInv'
<1> USE Pages
<1>1. /\ cursor = 0
      /\ ticks' = (ticks + 1) % TickMod
      /\ thread_ticks' = thread_ticks + 1
      /\ yield_on_return' = (thread_ticks + 1 >= TIME_SLICE)
      /\ cursor' = 1
      /\ EndHlt
      /\ UNCHANGED <<status, running, ready_list, idle_thread, sema, alarm, arg>>
  BY DEF TimerInterrupt
<1>2. /\ value' = value /\ waiters' = waiters
      /\ sleepList' = sleepList /\ sleepTick' = sleepTick /\ deadline' = deadline
  BY <1>1 DEF sema, alarm
<1>3. ticks' \in 0..TickMod-1
  <2>1. ticks + 1 \in Nat
    BY DEF IInv, TypeOK
  <2>2. (ticks + 1) % TickMod \in 0..TickMod-1
    BY <2>1, ThreadsAssumption
  <2>3. QED
    BY <1>1, <2>2
<1>4. thread_ticks' \in 0..TIME_SLICE /\ (thread_ticks' = TIME_SLICE => yield_on_return')
  <2>1. thread_ticks \in 0..TIME_SLICE /\ thread_ticks # TIME_SLICE
    BY <1>1 DEF IInv, TypeOK, CallsOK
  <2>2. thread_ticks + 1 \in 0..TIME_SLICE
    BY <2>1, ThreadsAssumption
  <2>3. thread_ticks + 1 = TIME_SLICE => thread_ticks + 1 >= TIME_SLICE
    BY <2>2
  <2>4. QED
    BY <1>1, <2>2, <2>3, Zenon
<1>5. /\ pc' \in [Thread -> PCs]
      /\ pc'[running] # "idle_hlt"
      /\ \A t \in Thread :
           \/ pc'[t] = pc[t]
           \/ t = running /\ t = Idle /\ pc[t] = "idle_hlt" /\ pc'[t] = "idle_block"
  BY <1>1, EndHltFacts
<1>6. yield_on_return' \in BOOLEAN /\ cursor' \in Nat /\ cursor' > 0
  BY <1>1
<1>7. TypeOK'
  BY <1>1, <1>2, <1>3, <1>4, <1>5, <1>6, Zenon DEF IInv, TypeOK
<1>8. RunQueueOK'
  BY <1>1 DEF IInv, RunQueueOK
<1>9. running \in Thread /\ status[running] = "RUNNING"
  BY RunningFacts
<1>10. \A t \in Thread :
          /\ \A p \in {"down", "sleep", "new", "leaked", "dead", "create", "idle_start"} :
               pc'[t] = p <=> pc[t] = p
          /\ status[t] = "BLOCKED" => pc'[t] = pc[t]
          /\ t # running => pc'[t] = pc[t]
  BY <1>5, <1>9
<1>11. SemaListsOK' /\ SleepListOK'
  <2>1. \A t \in Thread : /\ pc'[t] = "down" <=> pc[t] = "down"
                          /\ pc'[t] = "sleep" <=> pc[t] = "sleep"
    BY <1>10
  <2>2. SemaListsOK'
    BY <1>1, <1>2, <2>1, WaitersKept, Zenon
  <2>3. SleepListOK'
    BY <1>2, <2>1, Zenon DEF IInv, WaitListsOK, SleepListOK
  <2>4. QED
    BY <2>2, <2>3
<1>12. BlockedOK'
  BY <1>1, <1>10 DEF IInv, WaitListsOK, BlockedOK
<1>13. CallsOK'
  <2>1. \A t \in Thread :
          pc'[t] \in {"idle_start", "idle_up", "idle_block", "idle_hlt"} <=>
          pc[t] \in {"idle_start", "idle_up", "idle_block", "idle_hlt"}
    BY <1>5
  <2>2. \A t \in Thread : pc'[t] = "dead" <=> status'[t] \in {"FREE", "DYING"}
    BY <1>1, <1>10 DEF IInv, CallsOK
  <2>3. ASSUME NEW t \in Thread
        PROVE  /\ pc'[t] = "down" => arg'[t] \in Sema
               /\ pc'[t] = "create" => pc[t] = pc'[t] /\ arg'[t] = arg[t]
               /\ pc'[t] = "sleep" => pc[t] = "sleep"
               /\ pc[t] = "new" => pc'[t] = "new"
               /\ pc'[t] = "idle_start" <=> pc[t] = "idle_start"
    BY <1>1, <1>10 DEF IInv, CallsOK
  <2>4. /\ thread_ticks' = TIME_SLICE => cursor' > 0 /\ yield_on_return'
        /\ cursor' > 0 => pc'[running'] # "idle_hlt"
    BY <1>1, <1>4, <1>5, <1>6
  <2>5. QED
    BY <1>1, <1>2, <2>1, <2>2, <2>3, <2>4, CallsKept, Zenon DEF CallsOK
<1>14. QED
  BY <1>7, <1>8, <1>11, <1>12, <1>13 DEF IInv, WaitListsOK

(* A step that calls sema_up (s), by a thread, by the idle thread or by an *)
(* interrupt handler: pc changes at most for the idle thread, in idle ().  *)
Ups(s) ==
  /\ Up(s)
  /\ UNCHANGED <<idle_thread, clock, alarm>>
  /\ pc' \in [Thread -> PCs]
  /\ arg' \in [Thread -> Sema \cup Thread \cup {NULL}]
  /\ \A t \in Thread :
       \/ pc'[t] = pc[t] /\ arg'[t] = arg[t]
       \/ t = running /\ pc[t] \in {"idle_up", "idle_hlt"} /\ pc'[t] = "idle_block"

(* Such a step preserves IInv. *)
LEMMA UpStep ==
  ASSUME IInv, NEW s \in Sema, Ups(s)
  PROVE  IInv'
<1> USE Pages
<1>12. Up(s)
  BY DEF Ups
<1>13. /\ pc' \in [Thread -> PCs]
       /\ arg' \in [Thread -> Sema \cup Thread \cup {NULL}]
  BY DEF Ups
<1>14. \A t \in Thread :
         \/ pc'[t] = pc[t] /\ arg'[t] = arg[t]
         \/ t = running /\ pc[t] \in {"idle_up", "idle_hlt"} /\ pc'[t] = "idle_block"
  BY Zenon DEF Ups
<1>1. /\ running' = running /\ thread_ticks' = thread_ticks
      /\ value' \in [Sema -> 0..MaxValue]
      /\ waiters' \in [Sema -> Seq(Thread)]
      /\ status' \in [Thread -> Statuses]
      /\ QueueMatches(status', ready_list')
      /\ \A t \in Thread : status'[t] = "RUNNING" <=> t = running
      /\ \A t \in Thread : status'[t] = status[t] \/
            (status[t] = "BLOCKED" /\ status'[t] = "READY" /\ pc[t] = "down")
  BY <1>12, UpFacts, Zenon
<1>10. \A r \in Sema : /\ IsInjective(waiters'[r])
                       /\ \A t \in Thread : t \in Range(waiters'[r]) <=>
                            status'[t] = "BLOCKED" /\ pc[t] = "down" /\ arg[t] = r
  BY <1>12, UpFacts
<1>11. \A t \in Thread : pc[t] = "down" => arg[t] \in Sema
  BY Zenon DEF IInv, CallsOK
<1>2. /\ idle_thread' = idle_thread /\ sleepList' = sleepList /\ sleepTick' = sleepTick
      /\ deadline' = deadline /\ ticks' = ticks /\ cursor' = cursor
      /\ yield_on_return' = yield_on_return
  BY DEF Ups, clock, alarm
<1>3. TypeOK'
  BY <1>1, <1>2, <1>13, Zenon DEF IInv, TypeOK, QueueMatches
<1>4. RunQueueOK'
  <2>1. /\ IsInjective(ready_list')
        /\ \A t \in Thread : t \in Range(ready_list') <=>
             status'[t] = "READY" /\ t # idle_thread
    BY <1>1, Zenon DEF QueueMatches
  <2>2. running' = running /\ idle_thread' = idle_thread
        /\ \A t \in Thread : status'[t] = "RUNNING" <=> t = running
    BY <1>1, <1>2, Zenon
  <2>3. QED
    BY <2>1, <2>2, Zenon DEF RunQueueOK
<1>0. \A t \in Thread : /\ status'[t] = "BLOCKED" /\ pc'[t] = "idle_block" => pc[t] = "idle_block"
                        /\ status'[t] = "BLOCKED" => status[t] = "BLOCKED"
  BY <1>1, <1>14, RunningFacts
<1>5. SemaListsOK'
  <2>1. ASSUME NEW r \in Sema, NEW t \in Thread
        PROVE  status'[t] = "BLOCKED" /\ pc'[t] = "down" /\ arg'[t] = r <=>
               status'[t] = "BLOCKED" /\ pc[t] = "down" /\ arg[t] = r
    BY <1>14
  <2>2. ASSUME NEW r \in Sema
        PROVE  /\ IsInjective(waiters'[r])
               /\ \A t \in Thread : t \in Range(waiters'[r]) <=>
                    status'[t] = "BLOCKED" /\ pc'[t] = "down" /\ arg'[t] = r
    BY <1>10, <2>1
  <2>3. QED
    BY <2>2, Zenon DEF SemaListsOK
<1>6. SleepListOK'
  BY <1>2, <1>14 DEF IInv, WaitListsOK, SleepListOK
<1>7. BlockedOK'
  <2>1. \A t \in Thread :
          /\ status[t] = "BLOCKED" => pc[t] \in {"down", "sleep", "new", "leaked", "idle_hlt"}
          /\ pc[t] \in {"sleep", "new", "leaked"} => status[t] = "BLOCKED"
          /\ pc[t] = "idle_hlt" /\ t # running => status[t] = "BLOCKED"
    BY DEF IInv, WaitListsOK, BlockedOK
  <2>2. ASSUME NEW t \in Thread
        PROVE  /\ status'[t] = "BLOCKED" => pc'[t] \in {"down", "sleep", "new", "leaked", "idle_hlt"}
               /\ pc'[t] \in {"sleep", "new", "leaked"} => status'[t] = "BLOCKED"
               /\ pc'[t] = "idle_hlt" /\ t # running => status'[t] = "BLOCKED"
    <3>1. CASE pc'[t] = pc[t]
      <4>1. status'[t] = status[t] \/
            (status[t] = "BLOCKED" /\ status'[t] = "READY" /\ pc[t] = "down")
        BY <1>1
      <4>2. QED
        BY <2>1, <3>1, <4>1, Zenon
    <3>2. CASE t = running /\ pc'[t] = "idle_block"
      BY <1>1, <3>2
    <3>3. QED
      BY <1>14, <3>1, <3>2
  <2>3. QED
    BY <1>1, <2>2 DEF BlockedOK
<1>8. CallsOK'
  <2>1. \A t \in Thread :
          /\ pc'[t] = "dead" <=> pc[t] = "dead"
          /\ pc'[t] = "down" => arg'[t] \in Sema
          /\ pc'[t] = "create" => pc[t] = pc'[t] /\ arg'[t] = arg[t]
          /\ pc'[t] = "sleep" => pc[t] = "sleep"
          /\ pc[t] = "new" => pc'[t] = "new"
          /\ pc'[t] = "idle_start" <=> pc[t] = "idle_start"
          /\ pc'[t] \in {"idle_start", "idle_up", "idle_block", "idle_hlt"} <=>
             pc[t] \in {"idle_start", "idle_up", "idle_block", "idle_hlt"}
    BY <1>11, <1>14, Zenon
  <2>2. \A t \in Thread : pc'[t] = "dead" <=> status'[t] \in {"FREE", "DYING"}
    BY <1>1, <2>1, Zenon DEF IInv, CallsOK
  <2>5. /\ thread_ticks = TIME_SLICE => cursor > 0 /\ yield_on_return
        /\ cursor > 0 => pc[running] # "idle_hlt"
    BY DEF IInv, CallsOK
  <2>7. thread_ticks' = TIME_SLICE => cursor' > 0 /\ yield_on_return'
    BY <1>1, <1>2, <2>5, Zenon
  <2>8. cursor' > 0 => pc'[running'] # "idle_hlt"
    <3>1. running \in Thread /\ running' = running /\ cursor' = cursor
      BY <1>1, <1>2, RunningFacts, Zenon
    <3>2. pc'[running] = "idle_hlt" => pc[running] = "idle_hlt"
      BY <1>14, <3>1
    <3>3. QED
      BY <2>5, <3>1, <3>2
  <2>9. QED
    BY <1>2, <2>1, <2>2, <2>7, <2>8, CallsKept, Zenon DEF CallsOK
<1>9. QED
  BY <1>3, <1>4, <1>5, <1>6, <1>7, <1>8 DEF IInv, WaitListsOK

----------------------------------------------------------------------------
(* thread_yield (): the caller is READY, and queued unless it is idle. *)
LEMMA YieldFacts ==
  ASSUME IInv, Yield
  PROVE  /\ running' \in Thread
         /\ thread_ticks' = 0
         /\ status' \in [Thread -> Statuses]
         /\ QueueMatches(status', ready_list')
         /\ \A t \in Thread : status'[t] = "RUNNING" <=> t = running'
         /\ status[running'] \in {"READY", "RUNNING"} \/ running' = Idle
         /\ status'[running] \in {"READY", "RUNNING"}
         /\ \A t \in Thread \ {running, running'} : status'[t] = status[t]
<1> DEFINE st == [status EXCEPT ![running] = "READY"]
           rl == YieldQueue
<1>1. /\ running \in Thread /\ idle_thread \in {NULL, Idle} /\ ready_list \in Seq(Thread)
      /\ IsInjective(ready_list)
  BY DEF IInv, TypeOK, RunQueueOK
<1>2. st \in [Thread -> Statuses] /\ st[running] = "READY"
      /\ \A t \in Thread \ {running} : st[t] = status[t]
  BY <1>1 DEF IInv, TypeOK, Statuses
<1>3. /\ \A t \in Thread : status[t] = "RUNNING" <=> t = running
      /\ \A t \in Thread : t \in Range(ready_list) <=> status[t] = "READY" /\ t # idle_thread
  BY DEF IInv, RunQueueOK
<1>4. Idle \in Thread /\ status[Idle] # "DYING"
  BY ThreadsAssumption DEF IInv, CallsOK
<1>5. Schedule(st, rl)
  BY DEF Yield
<1>6. running \notin Range(ready_list)
  BY RunningFacts
<1>7. /\ rl \in Seq(Thread) /\ IsInjective(rl)
      /\ \A t \in Thread : t \in Range(rl) <=>
           t \in Range(ready_list) \/ (t = running /\ running # idle_thread)
  <2>1. CASE running = idle_thread
    BY <1>1, <2>1 DEF YieldQueue
  <2>2. CASE running # idle_thread
    <3>1. rl = Append(ready_list, running)
      BY <2>2 DEF YieldQueue
    <3>2. QED
      BY <1>1, <1>6, <2>2, <3>1, PushBack
  <2>3. QED
    BY <2>1, <2>2
<1>8. rl = <<>> => idle_thread = Idle
  <2>1. SUFFICES ASSUME rl = <<>> PROVE idle_thread = Idle
    OBVIOUS
  <2>2. running \notin Range(rl)
    BY <2>1, EmptyList
  <2>3. QED
    BY <1>1, <1>7, <2>2, ThreadsAssumption
<1> HIDE DEF st, rl
<1>9. QueueMatches(st, rl)
  BY <1>2, <1>3, <1>7 DEF QueueMatches
<1>10. st[Idle] # "DYING" /\ \A t \in Thread : st[t] # "RUNNING" /\ (t = running => st[t] # "DYING")
  BY <1>2, <1>3, <1>4
<1>11. /\ running' \in Thread
       /\ thread_ticks' = 0
       /\ status' \in [Thread -> Statuses]
       /\ QueueMatches(status', ready_list')
       /\ \A t \in Thread : status'[t] = "RUNNING" <=> t = running'
       /\ st[running'] = "READY" \/ (running' = Idle /\ idle_thread = Idle)
       /\ \A t \in Thread \ {running'} : status'[t] =
             IF t = running /\ t # Main /\ st[t] = "DYING" THEN "FREE" ELSE st[t]
  BY <1>1, <1>2, <1>5, <1>7, <1>8, <1>9, <1>10, ScheduleFacts
<1>12. status[running'] \in {"READY", "RUNNING"} \/ running' = Idle
  BY <1>1, <1>2, <1>3, <1>11
<1>13. status'[running] \in {"READY", "RUNNING"}
  BY <1>1, <1>2, <1>10, <1>11
<1>14. \A t \in Thread \ {running, running'} : status'[t] = status[t]
  BY <1>2, <1>11
<1>15. QED
  BY <1>11, <1>12, <1>13, <1>14

(* thread_exit (): the caller is DYING, and its page freed unless it is    *)
(* the initial thread.                                                     *)
LEMMA ExitFacts ==
  ASSUME IInv, running # Idle, Schedule([status EXCEPT ![running] = "DYING"], ready_list)
  PROVE  /\ running' \in Thread
         /\ thread_ticks' = 0
         /\ status' \in [Thread -> Statuses]
         /\ QueueMatches(status', ready_list')
         /\ \A t \in Thread : status'[t] = "RUNNING" <=> t = running'
         /\ status[running'] \in {"READY", "RUNNING"} \/ running' = Idle
         /\ status'[running] \in {"FREE", "DYING"}
         /\ \A t \in Thread \ {running, running'} : status'[t] = status[t]
<1> DEFINE st == [status EXCEPT ![running] = "DYING"]
<1>1. running \in Thread /\ idle_thread \in {NULL, Idle} /\ ready_list \in Seq(Thread)
  BY DEF IInv, TypeOK
<1>2. st \in [Thread -> Statuses] /\ st[running] = "DYING"
      /\ \A t \in Thread \ {running} : st[t] = status[t]
  BY <1>1 DEF IInv, TypeOK, Statuses
<1>3. \A t \in Thread : status[t] = "RUNNING" <=> t = running
  BY Zenon DEF IInv, RunQueueOK
<1>4. Idle \in Thread /\ status[Idle] # "DYING"
  BY ThreadsAssumption DEF IInv, CallsOK
<1>5. Schedule(st, ready_list)
  OBVIOUS
<1> HIDE DEF st
<1>6. QueueMatches(st, ready_list)
  BY <1>1, <1>2, <1>3 DEF IInv, RunQueueOK, QueueMatches
<1>7. ready_list = <<>> => idle_thread = Idle
  BY HasNext
<1>8. st[Idle] # "DYING" /\ \A t \in Thread : st[t] # "RUNNING"
  BY <1>2, <1>3, <1>4
<1>9. /\ running' \in Thread
      /\ thread_ticks' = 0
      /\ status' \in [Thread -> Statuses]
      /\ QueueMatches(status', ready_list')
      /\ \A t \in Thread : status'[t] = "RUNNING" <=> t = running'
      /\ st[running'] = "READY" \/ (running' = Idle /\ idle_thread = Idle)
      /\ \A t \in Thread \ {running'} : status'[t] =
            IF t = running /\ t # Main /\ st[t] = "DYING" THEN "FREE" ELSE st[t]
  BY <1>1, <1>2, <1>5, <1>6, <1>7, <1>8, ScheduleFacts
<1>10. status[running'] \in {"READY", "RUNNING"} \/ running' = Idle
  BY <1>1, <1>2, <1>3, <1>9
<1>11. running' # running
  BY <1>1, <1>2, <1>9
<1>12. QED
  BY <1>1, <1>2, <1>9, <1>10, <1>11

(* A step that switches threads and touches no wait list: thread_yield,    *)
(* thread_exit and the idle thread's thread_block.                         *)
Switches ==
  /\ running' \in Thread /\ thread_ticks' = 0
  /\ status' \in [Thread -> Statuses]
  /\ QueueMatches(status', ready_list')
  /\ \A t \in Thread : status'[t] = "RUNNING" <=> t = running'
  /\ status[running'] \in {"READY", "RUNNING"} \/ running' = Idle
  /\ \A t \in Thread \ {running, running'} : status'[t] = status[t]
  /\ pc' \in [Thread -> PCs]
  /\ arg' \in [Thread -> Sema \cup Thread \cup {NULL}]
  /\ \A t \in Thread \ {running} : pc'[t] = pc[t] /\ arg'[t] = arg[t]
  /\ UNCHANGED <<idle_thread, sema, ticks, alarm>>
  /\ cursor' = 0 /\ yield_on_return' \in BOOLEAN

(* What becomes of the thread that stops running. *)
Leaves ==
  \/ /\ pc'[running] = pc[running] /\ arg'[running] = arg[running]
     /\ status'[running] \in {"READY", "RUNNING"}
     /\ running' # running => pc[running] # "idle_hlt"
  \/ /\ pc[running] = "kernel" /\ pc'[running] = "dead"
     /\ status'[running] \in {"FREE", "DYING"}
  \/ /\ pc[running] = "idle_block" /\ pc'[running] = "idle_hlt"
     /\ status'[running] \in {"BLOCKED", "RUNNING"}

(* Such a step preserves IInv. *)
LEMMA SwitchStep ==
  ASSUME IInv, Switches, Leaves
  PROVE  IInv'
<1> USE Pages
<1>12. /\ running' \in Thread
       /\ \A t \in Thread : status'[t] = "RUNNING" <=> t = running'
       /\ status[running'] \in {"READY", "RUNNING"} \/ running' = Idle
  BY Zenon DEF Switches
<1>13. \A t \in Thread \ {running} : pc'[t] = pc[t] /\ arg'[t] = arg[t]
  BY Zenon DEF Switches
<1>14. \A t \in Thread \ {running, running'} : status'[t] = status[t]
  BY DEF Switches
<1>1. /\ idle_thread' = idle_thread /\ value' = value /\ waiters' = waiters /\ ticks' = ticks
      /\ sleepList' = sleepList /\ sleepTick' = sleepTick /\ deadline' = deadline
  BY DEF Switches, sema, alarm
<1>2. /\ running \in Thread /\ status[running] = "RUNNING"
      /\ pc[running] \notin {"sleep", "new", "leaked", "dead"}
      /\ running = Idle <=> pc[running] \in {"idle_start", "idle_up", "idle_block", "idle_hlt"}
  BY RunningFacts, Zenon
<1>3. /\ pc[running'] \notin {"sleep", "new", "leaked", "dead"}
      /\ status[running'] = "BLOCKED" => pc[running'] # "down"
  BY <1>12, AwakeFacts DEF IInv, CallsOK
<1>4. TypeOK'
  <2>1. thread_ticks' \in 0..TIME_SLICE
    BY ZeroTick, Zenon DEF Switches
  <2>2. ready_list' \in Seq(Thread)
    BY Zenon DEF QueueMatches, Switches
  <2>3. QED
    BY <1>1, <2>1, <2>2, Zenon DEF IInv, TypeOK, Switches
<1>5. RunQueueOK'
  BY <1>1, Zenon DEF RunQueueOK, QueueMatches, Switches
<1>6. ASSUME NEW t \in Thread
      PROVE  /\ \A r : status'[t] = "BLOCKED" /\ pc'[t] = "down" /\ arg'[t] = r <=>
                       status[t] = "BLOCKED" /\ pc[t] = "down" /\ arg[t] = r
             /\ \A p \in {"down", "create", "sleep", "new", "leaked", "idle_start"} :
                  pc'[t] = p <=> pc[t] = p
             /\ pc'[t] \in {"down", "create"} => arg'[t] = arg[t]
             /\ pc'[t] \in {"idle_start", "idle_up", "idle_block", "idle_hlt"} <=>
                pc[t] \in {"idle_start", "idle_up", "idle_block", "idle_hlt"}
  <2>1. CASE t = running
    BY <1>2, <2>1, Zenon DEF Leaves
  <2>2. CASE t # running /\ t = running'
    BY <1>3, <1>12, <1>13, <2>2
  <2>3. CASE t # running /\ t # running'
    BY <1>13, <1>14, <2>3
  <2>4. QED
    BY <2>1, <2>2, <2>3, Zenon
<1>7. SemaListsOK'
  BY <1>1, <1>6, WaitersKept, Zenon
<1>8. SleepListOK'
  BY <1>1, <1>6 DEF IInv, WaitListsOK, SleepListOK
<1>9. BlockedOK'
  <2>1. \A t \in Thread :
          /\ status[t] = "BLOCKED" => pc[t] \in {"down", "sleep", "new", "leaked", "idle_hlt"}
          /\ pc[t] \in {"sleep", "new", "leaked"} => status[t] = "BLOCKED"
          /\ pc[t] = "idle_hlt" /\ t # running => status[t] = "BLOCKED"
    BY DEF IInv, WaitListsOK, BlockedOK
  <2>2. ASSUME NEW t \in Thread
        PROVE  /\ status'[t] = "BLOCKED" => pc'[t] \in {"down", "sleep", "new", "leaked", "idle_hlt"}
               /\ pc'[t] \in {"sleep", "new", "leaked"} => status'[t] = "BLOCKED"
               /\ pc'[t] = "idle_hlt" /\ t # running' => status'[t] = "BLOCKED"
    <3>1. CASE t = running
      BY <1>2, <1>12, <3>1 DEF Leaves
    <3>2. CASE t # running /\ t = running'
      BY <1>3, <1>12, <1>13, <3>2
    <3>3. CASE t # running /\ t # running'
      BY <1>13, <1>14, <2>1, <3>3
    <3>4. QED
      BY <3>1, <3>2, <3>3, Zenon
  <2>3. QED
    BY <2>2 DEF BlockedOK
<1>10. CallsOK'
  <2>1. \A t \in Thread : pc[t] = "dead" <=> status[t] \in {"FREE", "DYING"}
    BY DEF IInv, CallsOK
  <2>2. ASSUME NEW t \in Thread
        PROVE  pc'[t] = "dead" <=> status'[t] \in {"FREE", "DYING"}
    <3>1. CASE t = running
      BY <1>2, <1>12, <3>1 DEF Leaves
    <3>2. CASE t # running /\ t = running'
      BY <1>3, <1>12, <1>13, <3>2
    <3>3. CASE t # running /\ t # running'
      BY <1>13, <1>14, <2>1, <3>3
    <3>4. QED
      BY <3>1, <3>2, <3>3
  <2>3. \A t \in Thread :
          /\ pc'[t] = "down" => arg'[t] \in Sema
          /\ pc'[t] = "create" => pc[t] = pc'[t] /\ arg'[t] = arg[t]
          /\ pc'[t] = "sleep" => pc[t] = "sleep"
          /\ pc[t] = "new" => pc'[t] = "new"
          /\ pc'[t] = "idle_start" <=> pc[t] = "idle_start"
          /\ pc'[t] \in {"idle_start", "idle_up", "idle_block", "idle_hlt"} <=>
             pc[t] \in {"idle_start", "idle_up", "idle_block", "idle_hlt"}
    <3>1. \A t \in Thread : pc[t] = "down" => arg[t] \in Sema
      BY Zenon DEF IInv, CallsOK
    <3>2. QED
      BY <1>6, <3>1, Zenon
  <2>4. thread_ticks' # TIME_SLICE /\ ~(cursor' > 0)
    BY ZeroTick DEF Switches
  <2>5. QED
    BY <1>1, <2>2, <2>3, <2>4, CallsKept, Zenon DEF CallsOK
<1>11. QED
  BY <1>4, <1>5, <1>7, <1>8, <1>9, <1>10 DEF IInv, WaitListsOK

(* thread_yield, called or at the end of an interrupt, preserves IInv. *)
LEMMA YieldStep ==
  ASSUME IInv, Yield, pc[running] # "idle_hlt",
         UNCHANGED <<idle_thread, sema, ticks, alarm, pc, arg>>,
         cursor' = 0, yield_on_return' \in BOOLEAN
  PROVE  IInv'
<1>1. /\ running' \in Thread
      /\ thread_ticks' = 0
      /\ status' \in [Thread -> Statuses]
      /\ QueueMatches(status', ready_list')
      /\ \A t \in Thread : status'[t] = "RUNNING" <=> t = running'
      /\ status[running'] \in {"READY", "RUNNING"} \/ running' = Idle
      /\ status'[running] \in {"READY", "RUNNING"}
      /\ \A t \in Thread \ {running, running'} : status'[t] = status[t]
  BY YieldFacts
<1>2. /\ pc' = pc /\ arg' = arg
      /\ pc' \in [Thread -> PCs] /\ arg' \in [Thread -> Sema \cup Thread \cup {NULL}]
  BY DEF IInv, TypeOK
<1>3. QED
  BY <1>1, <1>2, SwitchStep, Zenon DEF Switches, Leaves

(* thread_exit preserves IInv: its page is freed once another thread runs. *)
LEMMA ExitStep ==
  ASSUME IInv, ThreadExit
  PROVE  IInv'
<1>1. /\ cursor = 0 /\ pc[running] = "kernel"
      /\ Schedule([status EXCEPT ![running] = "DYING"], ready_list)
      /\ Goto("dead", NULL)
      /\ UNCHANGED <<idle_thread, sema, clock, alarm>>
  BY DEF ThreadExit, At
<1>2. running \in Thread /\ running # Idle
  BY <1>1, RunningFacts
<1>3. /\ running' \in Thread
      /\ thread_ticks' = 0
      /\ status' \in [Thread -> Statuses]
      /\ QueueMatches(status', ready_list')
      /\ \A t \in Thread : status'[t] = "RUNNING" <=> t = running'
      /\ status[running'] \in {"READY", "RUNNING"} \/ running' = Idle
      /\ status'[running] \in {"FREE", "DYING"}
      /\ \A t \in Thread \ {running, running'} : status'[t] = status[t]
  BY <1>1, <1>2, ExitFacts
<1>4. /\ pc' \in [Thread -> PCs] /\ arg' \in [Thread -> Sema \cup Thread \cup {NULL}]
      /\ pc'[running] = "dead"
      /\ \A t \in Thread \ {running} : pc'[t] = pc[t] /\ arg'[t] = arg[t]
  BY <1>1, <1>2 DEF Goto, IInv, TypeOK, PCs
<1>5. cursor' = 0 /\ ticks' = ticks /\ yield_on_return' \in BOOLEAN
  BY <1>1, Zenon DEF clock, IInv, TypeOK
<1>6. QED
  BY <1>1, <1>3, <1>4, <1>5, SwitchStep, Zenon DEF Switches, Leaves

(* The idle thread's thread_block preserves IInv, even when it is the next *)
(* thread to run itself.                                                   *)
LEMMA IdleBlockStep ==
  ASSUME IInv, IdleBlock
  PROVE  IInv'
<1>1. /\ cursor = 0 /\ pc[running] = "idle_block"
      /\ Block
      /\ Goto("idle_hlt", NULL)
      /\ UNCHANGED <<idle_thread, sema, clock, alarm>>
  BY Zenon DEF IdleBlock, At
<1>2. running \in Thread /\ running = Idle
  BY <1>1, RunningFacts
<1>3. idle_thread = Idle
  BY <1>1, <1>2 DEF IInv, TypeOK, CallsOK
<1>4. /\ running' \in Thread
      /\ thread_ticks' = 0
      /\ status' \in [Thread -> Statuses]
      /\ QueueMatches(status', ready_list')
      /\ \A t \in Thread : status'[t] = "RUNNING" <=> t = running'
      /\ (status[running'] = "READY" /\ running' # running) \/ running' = Idle
      /\ \A t \in Thread \ {running'} :
            status'[t] = IF t = running THEN "BLOCKED" ELSE status[t]
  BY <1>1, <1>3, BlockFacts, Zenon
<1>5. /\ status'[running] \in {"BLOCKED", "RUNNING"}
      /\ \A t \in Thread \ {running, running'} : status'[t] = status[t]
  BY <1>2, <1>4
<1>6. /\ pc' \in [Thread -> PCs] /\ arg' \in [Thread -> Sema \cup Thread \cup {NULL}]
      /\ pc'[running] = "idle_hlt"
      /\ \A t \in Thread \ {running} : pc'[t] = pc[t] /\ arg'[t] = arg[t]
  BY <1>1, <1>2 DEF Goto, IInv, TypeOK, PCs
<1>7. cursor' = 0 /\ ticks' = ticks /\ yield_on_return' \in BOOLEAN
  BY <1>1 DEF clock, IInv, TypeOK
<1>8. QED
  BY <1>1, <1>4, <1>5, <1>6, <1>7, SwitchStep DEF Switches, Leaves

----------------------------------------------------------------------------
(* One turn of timer_interrupt's loop. *)
LEMMA TimerWalkStep ==
  ASSUME IInv, TimerWalk
  PROVE  IInv'
<1> USE Pages
<1> DEFINE u == sleepList[cursor]
<1>1. /\ cursor \in DOMAIN sleepList
      /\ sleepTick' = [sleepTick EXCEPT ![u] = @ - 1]
      /\ cursor' = ListNext(Expires(u))
      /\ IF Expires(u)
         THEN ThreadAwake(u) /\ pc' = [pc EXCEPT ![u] = "kernel"]
         ELSE UNCHANGED <<sleepList, sched, pc>>
      /\ UNCHANGED <<idle_thread, sema, ticks, yield_on_return, deadline, arg>>
  BY DEF TimerWalk
<1>2. value' = value /\ waiters' = waiters
  BY <1>1 DEF sema
<1>3. /\ sleepList \in Seq(Thread) /\ IsInjective(sleepList)
      /\ \A t \in Thread : t \in Range(sleepList) <=> pc[t] = "sleep"
  BY Zenon DEF IInv, TypeOK, WaitListsOK, SleepListOK
<1>4. /\ u \in Thread /\ u \in Range(sleepList)
      /\ ListRemove(sleepList, cursor) \in Seq(Thread)
      /\ IsInjective(ListRemove(sleepList, cursor))
      /\ Range(ListRemove(sleepList, cursor)) = Range(sleepList) \ {u}
  BY <1>1, <1>3, RemoveFromList, Zenon
<1> HIDE DEF u
<1>5. pc[u] = "sleep" /\ status[u] = "BLOCKED" /\ sleepTick[u] > 0 /\ u # Idle
  BY <1>3, <1>4 DEF IInv, WaitListsOK, BlockedOK, CallsOK
<1>6. u # idle_thread
  BY <1>4, <1>5, Zenon DEF IInv, TypeOK
<1>7. running \in Thread /\ status[running] = "RUNNING" /\ running # u
  BY <1>5, RunningFacts
<1>8. /\ sleepTick' \in [Thread -> 0..MaxSleep]
      /\ sleepTick'[u] = sleepTick[u] - 1
      /\ \A t \in Thread \ {u} : sleepTick'[t] = sleepTick[t]
      /\ sleepTick[u] \in Nat
  <2>1. sleepTick \in [Thread -> 0..MaxSleep] /\ sleepTick[u] \in 0..MaxSleep
    BY <1>4 DEF IInv, TypeOK
  <2>2. sleepTick[u] - 1 \in 0..MaxSleep
    BY <1>5, <2>1, ThreadsAssumption
  <2>3. QED
    BY <1>1, <1>4, <2>1, <2>2
<1>9. cursor \in Nat /\ cursor > 0 /\ cursor' \in Nat /\ cursor' > 0
  <2>1. cursor \in Nat /\ cursor > 0
    BY <1>1, <1>3
  <2>2. QED
    BY <1>1, <2>1 DEF ListNext
<1>10. /\ running' = running /\ thread_ticks' = thread_ticks
       /\ status' \in [Thread -> Statuses]
       /\ QueueMatches(status', ready_list')
       /\ \A t \in Thread : status'[t] = "RUNNING" <=> t = running
       /\ sleepList' \in Seq(Thread) /\ IsInjective(sleepList')
       /\ pc' \in [Thread -> PCs]
       /\ \A t \in Thread \ {u} :
            /\ status'[t] = status[t] /\ pc'[t] = pc[t]
            /\ t \in Range(sleepList') <=> t \in Range(sleepList)
       /\ \/ status'[u] = "READY" /\ pc'[u] = "kernel" /\ u \notin Range(sleepList')
          \/ status'[u] = "BLOCKED" /\ pc'[u] = "sleep" /\ u \in Range(sleepList')
             /\ sleepTick'[u] > 0
  <2>1. CASE Expires(u)
    <3>1. /\ sleepList' = ListRemove(sleepList, cursor)
          /\ Unblock(u)
          /\ pc' = [pc EXCEPT ![u] = "kernel"]
      BY <1>1, <2>1, Zenon DEF ThreadAwake
    <3>2. /\ running' = running /\ thread_ticks' = thread_ticks
          /\ status' \in [Thread -> Statuses]
          /\ QueueMatches(status', ready_list')
          /\ \A t \in Thread : status'[t] = "RUNNING" <=> t = running
          /\ status'[u] = "READY"
          /\ \A t \in Thread \ {u} : status'[t] = status[t]
      BY <1>4, <1>5, <1>6, <3>1, UnblockFacts
    <3>3. pc' \in [Thread -> PCs] /\ pc'[u] = "kernel" /\ \A t \in Thread \ {u} : pc'[t] = pc[t]
      BY <1>4, <3>1 DEF IInv, TypeOK, PCs
    <3>4. QED
      BY <1>4, <3>1, <3>2, <3>3, Zenon
  <2>2. CASE ~Expires(u)
    <3>1. /\ sleepList' = sleepList /\ status' = status /\ running' = running
          /\ ready_list' = ready_list /\ thread_ticks' = thread_ticks /\ pc' = pc
      BY <1>1, <2>2 DEF sched
    <3>2. sleepTick'[u] > 0
      BY <1>5, <1>8, <2>2 DEF Expires
    <3>3. /\ status \in [Thread -> Statuses] /\ pc \in [Thread -> PCs]
          /\ QueueMatches(status, ready_list)
          /\ \A t \in Thread : status[t] = "RUNNING" <=> t = running
      BY DEF IInv, TypeOK, RunQueueOK, QueueMatches
    <3>4. QED
      BY <1>3, <1>4, <1>5, <3>1, <3>2, <3>3, Zenon
  <2>3. QED
    BY <2>1, <2>2, Zenon
<1>11. /\ idle_thread' = idle_thread /\ ticks' = ticks /\ arg' = arg /\ deadline' = deadline
       /\ yield_on_return' = yield_on_return
  BY <1>1
<1>12. TypeOK'
  BY <1>2, <1>8, <1>9, <1>10, <1>11, Zenon DEF IInv, TypeOK, QueueMatches
<1>13. RunQueueOK'
  BY <1>10, <1>11 DEF RunQueueOK, QueueMatches
<1>14. ASSUME NEW t \in Thread
       PROVE  /\ status'[t] = "BLOCKED" /\ pc'[t] = "down" <=>
                 status[t] = "BLOCKED" /\ pc[t] = "down"
              /\ t \in Range(sleepList') <=> pc'[t] = "sleep"
              /\ \A p \in {"down", "create", "new", "dead", "leaked", "idle_start",
                           "idle_up", "idle_block", "idle_hlt"} : pc'[t] = p <=> pc[t] = p
  <2>1. CASE t = u
    BY <1>5, <1>10, <2>1, Zenon
  <2>2. CASE t # u
    BY <1>3, <1>10, <2>2
  <2>3. QED
    BY <2>1, <2>2, Zenon
<1>15. SemaListsOK'
  <2>1. ASSUME NEW r \in Sema, NEW t \in Thread
        PROVE  status'[t] = "BLOCKED" /\ pc'[t] = "down" /\ arg'[t] = r <=>
               status[t] = "BLOCKED" /\ pc[t] = "down" /\ arg[t] = r
    BY <1>11, <1>14, Zenon
  <2>2. QED
    BY <1>2, <1>11, <2>1, WaitersKept, Zenon
<1>16. SleepListOK'
  BY <1>10, <1>14, Zenon DEF SleepListOK
<1>17. BlockedOK'
  <2>1. \A t \in Thread :
          /\ status[t] = "BLOCKED" => pc[t] \in {"down", "sleep", "new", "leaked", "idle_hlt"}
          /\ pc[t] \in {"sleep", "new", "leaked"} => status[t] = "BLOCKED"
          /\ pc[t] = "idle_hlt" /\ t # running => status[t] = "BLOCKED"
    BY DEF IInv, WaitListsOK, BlockedOK
  <2>2. ASSUME NEW t \in Thread
        PROVE  /\ status'[t] = "BLOCKED" => pc'[t] \in {"down", "sleep", "new", "leaked", "idle_hlt"}
               /\ pc'[t] \in {"sleep", "new", "leaked"} => status'[t] = "BLOCKED"
               /\ pc'[t] = "idle_hlt" /\ t # running => status'[t] = "BLOCKED"
    <3>1. CASE t = u
      BY <1>10, <3>1, Zenon
    <3>2. CASE t # u
      BY <1>10, <2>1, <3>2, Zenon
    <3>3. QED
      BY <3>1, <3>2, Zenon
  <2>3. QED
    BY <1>10, <2>2, Zenon DEF BlockedOK
<1>18. CallsOK'
  <2>1. \A t \in Thread :
          /\ pc[t] = "dead" <=> status[t] \in {"FREE", "DYING"}
          /\ pc[t] = "down" => arg[t] \in Sema
          /\ pc[t] = "create" => arg[t] \in Thread /\ pc[arg[t]] = "new"
          /\ pc[t] \in {"idle_start", "idle_up", "idle_block", "idle_hlt"} <=> t = Idle
          /\ pc[t] = "sleep" => sleepTick[t] > 0
    BY DEF IInv, CallsOK
  <2>2. ASSUME NEW t \in Thread
        PROVE  /\ pc'[t] = "dead" <=> status'[t] \in {"FREE", "DYING"}
               /\ pc'[t] = "sleep" => sleepTick'[t] > 0
    <3>1. CASE t = u
      BY <1>10, <3>1, Zenon
    <3>2. CASE t # u
      <4>1. status'[t] = status[t] /\ pc'[t] = pc[t] /\ sleepTick'[t] = sleepTick[t]
        BY <1>8, <1>10, <3>2, Zenon
      <4>2. QED
        BY <2>1, <4>1
    <3>3. QED
      BY <3>1, <3>2
  <2>3. ASSUME NEW t \in Thread
        PROVE  /\ pc'[t] = "down" => arg'[t] \in Sema
               /\ pc'[t] = "create" => arg'[t] \in Thread /\ pc'[arg'[t]] = "new"
               /\ pc'[t] \in {"idle_start", "idle_up", "idle_block", "idle_hlt"} <=> t = Idle
    BY <1>11, <1>14, <2>1, Zenon
  <2>4. /\ \A t, v \in Thread :
             pc'[t] = "create" /\ pc'[v] = "create" /\ arg'[t] = arg'[v] => t = v
        /\ idle_thread' = NULL <=> pc'[Idle] = "idle_start"
    <3>1. /\ \A t, v \in Thread :
               pc[t] = "create" /\ pc[v] = "create" /\ arg[t] = arg[v] => t = v
          /\ idle_thread = NULL <=> pc[Idle] = "idle_start"
      BY DEF IInv, CallsOK
    <3>2. \A t \in Thread : /\ pc'[t] = "create" <=> pc[t] = "create"
                            /\ pc'[t] = "idle_start" <=> pc[t] = "idle_start"
      BY <1>14, Zenon
    <3>3. QED
      BY <1>11, <3>1, <3>2
  <2>5. /\ thread_ticks' = TIME_SLICE => cursor' > 0 /\ yield_on_return'
        /\ cursor' > 0 => pc'[running'] # "idle_hlt"
    BY <1>7, <1>9, <1>10, <1>11, Zenon DEF IInv, CallsOK
  <2>6. QED
    BY <2>2, <2>3, <2>4, <2>5 DEF CallsOK
<1>19. QED
  BY <1>12, <1>13, <1>15, <1>16, <1>17, <1>18 DEF IInv, WaitListsOK
============================================================================
