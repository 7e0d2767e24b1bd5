------------------------------- MODULE Synch -------------------------------
(***************************************************************************)
(* A lock of threads/synch.c and the condition variables used with it, as  *)
(* this repository builds them (PROJECT_THREAD not defined).               *)
(*                                                                         *)
(* The scheduler is that of Threads: a section with interrupts off is one  *)
(* action, and any runnable thread may take the next one.  Semaphore       *)
(* operations are such sections; the code between them is not, and is      *)
(* split at each access to memory that other threads read or write.        *)
(* Threads call the operations as their comments require: lock_acquire     *)
(* only without the lock, the others only with it.                         *)
(***************************************************************************)
EXTENDS FiniteSets, Lists

CONSTANTS Thread, Cond, NULL

ASSUME SynchAssumption ==
  /\ NULL \notin Thread /\ NULL \notin Cond
  /\ IsFiniteSet(Thread)

VARIABLES holder,          \* lock->holder
          value, waiters,  \* lock->semaphore
          cond_waiters,    \* cond->waiters: whose semaphore_elem, in order
          wvalue,          \* the value of waiter.semaphore on a thread's stack
          blocked,         \* is the thread BLOCKED in a sema_down
          pc,
          cond,            \* the condition of the cond_wait or cond_broadcast a thread is in
          target           \* the semaphore_elem a signaller has popped

lockv == <<holder, value, waiters>>
condv == <<cond_waiters, wvalue, cond, target>>
vars == <<lockv, condv, blocked, pc>>

(* "out": without the lock; "acquire": in its sema_down; "got": it has     *)
(* returned, holder not yet set; "in": has the lock; "wait": its           *)
(* semaphore_elem is queued; "release": holder cleared, sema_up to come;   *)
(* "down": in the sema_down of its own waiter; "signal": has popped a      *)
(* waiter, sema_up to come; "broadcast": at cond_broadcast's loop test.    *)
PCs == {"out", "acquire", "got", "in", "wait", "release", "down", "signal", "broadcast"}

TypeOK ==
  /\ holder \in Thread \cup {NULL}
  /\ value \in Nat
  /\ waiters \in Seq(Thread)
  /\ cond_waiters \in [Cond -> Seq(Thread)]
  /\ wvalue \in [Thread -> Nat]
  /\ blocked \in [Thread -> BOOLEAN]
  /\ pc \in [Thread -> PCs]
  /\ cond \in [Thread -> Cond \cup {NULL}]
  /\ target \in [Thread -> Thread \cup {NULL}]

(* lock_init and cond_init *)
Init ==
  /\ holder = NULL
  /\ value = 1
  /\ waiters = <<>>
  /\ cond_waiters = [c \in Cond |-> <<>>]
  /\ wvalue = [t \in Thread |-> 0]
  /\ blocked = [t \in Thread |-> FALSE]
  /\ pc = [t \in Thread |-> "out"]
  /\ cond = [t \in Thread |-> NULL]
  /\ target = [t \in Thread |-> NULL]

----------------------------------------------------------------------------
Goto(t, p) == pc' = [pc EXCEPT ![t] = p]

(* One turn of sema_down's loop on the lock's semaphore. *)
LockDown(t) ==
  \/ /\ value = 0
     /\ waiters' = Append(waiters, t)
     /\ blocked' = [blocked EXCEPT ![t] = TRUE]
     /\ Goto(t, "acquire")
     /\ UNCHANGED <<holder, value>>
  \/ /\ value > 0
     /\ value' = value - 1
     /\ Goto(t, "got")
     /\ UNCHANGED <<holder, waiters, blocked>>

LockAcquire(t) == /\ pc[t] = "out"
                  /\ LockDown(t)
                  /\ UNCHANGED condv

LockAcquireTurn(t) == /\ pc[t] = "acquire" /\ ~blocked[t]
                      /\ LockDown(t)
                      /\ UNCHANGED condv

LockTryAcquire(t) == /\ pc[t] = "out"
                     /\ value > 0
                     /\ value' = value - 1
                     /\ Goto(t, "got")
                     /\ UNCHANGED <<holder, waiters, condv, blocked>>

SetHolder(t) == /\ pc[t] = "got"
                /\ holder' = t
                /\ Goto(t, "in")
                /\ UNCHANGED <<value, waiters, condv, blocked>>

(* lock_release, called by its user or by cond_wait. *)
ReleaseKeepsHolder(t) == /\ pc[t] \in {"in", "wait"}
                         /\ Goto(t, "release")
                         /\ UNCHANGED <<lockv, condv, blocked>>
LockRelease(t) == /\ pc[t] \in {"in", "wait"}
                  /\ holder' = NULL
                  /\ Goto(t, "release")
                  /\ UNCHANGED <<value, waiters, condv, blocked>>

WakeNoOne == UNCHANGED <<waiters, blocked>>
Wake == /\ waiters' = Tail(waiters)
        /\ blocked' = [blocked EXCEPT ![Head(waiters)] = FALSE]
ReleaseUp(t) == /\ pc[t] = "release"
                /\ IF waiters # <<>> THEN Wake ELSE UNCHANGED <<waiters, blocked>>
                /\ value' = value + 1
                /\ Goto(t, IF cond[t] = NULL THEN "out" ELSE "down")
                /\ UNCHANGED <<holder, condv>>

----------------------------------------------------------------------------
(* cond_wait: queue a fresh semaphore, release the lock, down the          *)
(* semaphore, acquire the lock.                                            *)
CondWait(t, c) == /\ pc[t] = "in"
                  /\ wvalue' = [wvalue EXCEPT ![t] = 0]
                  /\ cond_waiters' = [cond_waiters EXCEPT ![c] = Append(@, t)]
                  /\ cond' = [cond EXCEPT ![t] = c]
                  /\ Goto(t, "wait")
                  /\ UNCHANGED <<lockv, target, blocked>>

WaiterDownNoLock(t) ==
  /\ pc[t] = "down" /\ ~blocked[t]
  /\ \/ /\ wvalue[t] = 0
        /\ blocked' = [blocked EXCEPT ![t] = TRUE]
        /\ UNCHANGED <<wvalue, cond, pc>>
     \/ /\ wvalue[t] > 0
        /\ wvalue' = [wvalue EXCEPT ![t] = @ - 1]
        /\ cond' = [cond EXCEPT ![t] = NULL]
        /\ Goto(t, "out")
        /\ UNCHANGED blocked
  /\ UNCHANGED <<lockv, cond_waiters, target>>
WaiterDown(t) ==
  /\ pc[t] = "down" /\ ~blocked[t]
  /\ \/ /\ wvalue[t] = 0
        /\ blocked' = [blocked EXCEPT ![t] = TRUE]
        /\ UNCHANGED <<wvalue, cond, pc>>
     \/ /\ wvalue[t] > 0
        /\ wvalue' = [wvalue EXCEPT ![t] = @ - 1]
        /\ cond' = [cond EXCEPT ![t] = NULL]
        /\ Goto(t, "acquire")
        /\ UNCHANGED blocked
  /\ UNCHANGED <<lockv, cond_waiters, target>>

(* list_pop_front; a signal when no one waits does nothing. *)
PeekWaiter(t, c) == /\ cond_waiters[c] # <<>>
                    /\ target' = [target EXCEPT ![t] = Head(cond_waiters[c])]
                    /\ Goto(t, "signal")
                    /\ UNCHANGED cond_waiters
PopNewest(t, c) == /\ cond_waiters[c] # <<>>
                   /\ cond_waiters' = [cond_waiters EXCEPT ![c] = ListRemove(@, Len(@))]
                   /\ target' = [target EXCEPT ![t] = cond_waiters[c][Len(cond_waiters[c])]]
                   /\ Goto(t, "signal")
PopWaiter(t, c) == /\ cond_waiters[c] # <<>>
                   /\ cond_waiters' = [cond_waiters EXCEPT ![c] = Tail(@)]
                   /\ target' = [target EXCEPT ![t] = Head(cond_waiters[c])]
                   /\ Goto(t, "signal")

CondSignal(t, c) == /\ pc[t] = "in"
                    /\ PopWaiter(t, c)
                    /\ UNCHANGED <<lockv, wvalue, cond, blocked>>

(* The sema_up of the popped waiter; its thread is blocked on it or has    *)
(* yet to reach its sema_down.                                             *)
UpIfBlocked(w) == /\ wvalue' = [wvalue EXCEPT ![w] = IF blocked[w] THEN @ + 1 ELSE @]
                  /\ blocked' = [blocked EXCEPT ![w] = FALSE]
WaiterUp(w) == /\ wvalue' = [wvalue EXCEPT ![w] = @ + 1]
               /\ blocked' = [blocked EXCEPT ![w] = FALSE]
SignalUp(t) == /\ pc[t] = "signal"
               /\ WaiterUp(target[t])
               /\ target' = [target EXCEPT ![t] = NULL]
               /\ Goto(t, IF cond[t] = NULL THEN "in" ELSE "broadcast")
               /\ UNCHANGED <<lockv, cond_waiters, cond>>

CondBroadcast(t, c) == /\ pc[t] = "in"
                       /\ cond' = [cond EXCEPT ![t] = c]
                       /\ Goto(t, "broadcast")
                       /\ UNCHANGED <<lockv, cond_waiters, wvalue, target, blocked>>

BroadcastTurn(t) ==
  /\ pc[t] = "broadcast"
  /\ \/ PopWaiter(t, cond[t]) /\ UNCHANGED cond
     \/ /\ cond_waiters[cond[t]] = <<>>
        /\ cond' = [cond EXCEPT ![t] = NULL]
        /\ Goto(t, "in")
        /\ UNCHANGED <<cond_waiters, target>>
  /\ UNCHANGED <<lockv, wvalue, blocked>>

(* The steps of an operation that has been called. *)
Continue(t) == \/ LockAcquireTurn(t) \/ SetHolder(t) \/ ReleaseUp(t)
               \/ WaiterDown(t) \/ SignalUp(t) \/ BroadcastTurn(t)

(* The calls its users make. *)
Call(t) == \/ LockAcquire(t) \/ LockTryAcquire(t)
           \/ \E c \in Cond : CondWait(t, c) \/ CondSignal(t, c) \/ CondBroadcast(t, c)

Next == \E t \in Thread : Call(t) \/ LockRelease(t) \/ Continue(t)

Spec == Init /\ [][Next]_vars

----------------------------------------------------------------------------
(* The threads between their lock_acquire and their lock_release. *)
Inside == {"in", "wait", "signal", "broadcast"}
Owners == {t \in Thread : pc[t] \in Inside \cup {"got", "release"}}

(* Mutual exclusion: the lock's semaphore is 1 exactly when no thread is   *)
(* past its sema_down and before its sema_up, and there is never more than *)
(* one such thread; holder names it whenever it may use the lock, so that  *)
(* the ASSERTs of lock_release, cond_wait and cond_signal (synch.c:268,    *)
(* 338, 360) hold, and names no thread that could acquire (synch.c:226).   *)
OneOwner ==
  /\ value + Cardinality(Owners) = 1
  /\ \A t \in Thread : holder = t <=> pc[t] \in Inside

(* While threads wait for a free lock, one of them has been woken and will *)
(* retry: lock_release loses no waiter, even when a thread that never      *)
(* waited overtakes the woken one (synch.c:69-79, 137-146).                *)
LockNotForgotten ==
  waiters # <<>> /\ value > 0 => \E t \in Thread : pc[t] = "acquire" /\ ~blocked[t]

(* The stack frame of a semaphore_elem is alive as long as it is queued or *)
(* a signaller is about to sema_up it: its thread is still in cond_wait    *)
(* for that condition and has not been signalled, and it is there once     *)
(* (synch.c:339-344, 381-383).                                             *)
WaiterAlive ==
  /\ \A c \in Cond :
       /\ IsInjective(cond_waiters[c])
       /\ \A t \in Range(cond_waiters[c]) :
            pc[t] \in {"wait", "release", "down"} /\ cond[t] = c /\ wvalue[t] = 0
  /\ \A t \in Thread : pc[t] = "signal" =>
       /\ pc[target[t]] = "down" /\ wvalue[target[t]] = 0
       /\ \A c \in Cond : target[t] \notin Range(cond_waiters[c])

(* No signal is lost: a thread asleep in cond_wait is still queued, or a   *)
(* signaller that took it off the queue is about to wake it; a signal sent *)
(* between its lock_release and its sema_down keeps it from sleeping.      *)
NoLostSignal ==
  \A t \in Thread : pc[t] = "down" /\ (blocked[t] \/ wvalue[t] = 0) =>
    \/ t \in Range(cond_waiters[cond[t]])
    \/ \E u \in Thread : pc[u] = "signal" /\ target[u] = t

(* The abstract monitor: a thread owns it from its sema_down to its        *)
(* sema_up, and waits from the sema_up inside cond_wait until it is        *)
(* popped.  Only the last in a queue can be before that sema_up.           *)
owner == IF Owners = {} THEN NULL ELSE CHOOSE t \in Owners : TRUE
Waiting(q) == IF q # <<>> /\ pc[q[Len(q)]] # "down" THEN SubSeq(q, 1, Len(q) - 1) ELSE q
waiting == [c \in Cond |-> Waiting(cond_waiters[c])]
M == INSTANCE Monitor

(* cond_wait releases the lock and starts to wait as if in one step, as    *)
(* its comment says (synch.c:310), and cond_signal wakes in FIFO order.    *)
ImplementsMonitor == M!Spec
============================================================================
