---------------------------- MODULE SynchProofs ----------------------------
(***************************************************************************)
(* For every set of threads and conditions: the locks of synch.c exclude   *)
(* and forget no waiter, cond_signal never touches a stack frame that is   *)
(* gone and is never lost, and together they implement Monitor.            *)
(***************************************************************************)
EXTENDS Synch, ListLemmas, FiniteSetTheorems

USE SMTT(30), Zenon

(* The lock's semaphore counts the owners. *)
LockOK ==
  \/ value = 1 /\ Owners = {}
  \/ value = 0 /\ \E t \in Thread : Owners = {t}

(* holder is the owner, but for the moments after its sema_down and before *)
(* its sema_up.                                                            *)
HolderOK == \A t \in Thread : holder = t <=> pc[t] \in Inside

(* The lock's wait list holds those that are blocked for it, once each. *)
WaitersOK ==
  /\ IsInjective(waiters)
  /\ \A t \in Range(waiters) : pc[t] = "acquire" /\ blocked[t]

(* The condition a thread is concerned with, at each point of its calls *)
CondOK ==
  \A t \in Thread :
    /\ pc[t] \in {"out", "acquire", "got", "in"} => cond[t] = NULL
    /\ pc[t] \in {"wait", "down", "broadcast"} => cond[t] \in Cond
    /\ pc[t] = "signal" => target[t] \in Thread

(* A thread that has queued itself and not yet released the lock is still  *)
(* the last in its queue.                                                  *)
LastOK ==
  \A t \in Thread :
    pc[t] = "wait" \/ (pc[t] = "release" /\ cond[t] # NULL) =>
      LET q == cond_waiters[cond[t]] IN q # <<>> /\ q[Len(q)] = t

(* Who is blocked, and where: for the lock, or on a semaphore that is 0. *)
BlockedOK ==
  \A t \in Thread : blocked[t] =>
    pc[t] = "acquire" \/ (pc[t] = "down" /\ wvalue[t] = 0)

(* The inductive invariant *)
IInv ==
  /\ TypeOK /\ LockOK /\ HolderOK /\ WaitersOK /\ LockNotForgotten
  /\ CondOK /\ LastOK /\ BlockedOK /\ WaiterAlive /\ NoLostSignal
(* The steps at which a thread is an owner *)
Owning == Inside \cup {"got", "release"}

----------------------------------------------------------------------------
(* While a thread owns the lock no other does, and the semaphore is 0. *)
LEMMA OnlyOwner ==
  ASSUME LockOK, NEW t \in Thread, pc[t] \in Owning
  PROVE  value = 0 /\ Owners = {t} /\ \A u \in Thread : pc[u] \in Owning => u = t
  BY DEF LockOK, Owners, Owning, Inside

(* A lock whose semaphore is not 0 has no owner. *)
LEMMA FreeLock ==
  ASSUME LockOK, value > 0
  PROVE  value = 1 /\ Owners = {} /\ \A u \in Thread : pc[u] \notin Owning
  BY DEF LockOK, Owners, Owning

(* How the move of one thread changes the owners *)
LEMMA OwnersMove ==
  ASSUME TypeOK, NEW t \in Thread, NEW p \in PCs, Goto(t, p)
  PROVE  /\ p \in Owning => Owners' = Owners \cup {t}
         /\ p \notin Owning => Owners' = Owners \ {t}
  BY DEF TypeOK, Goto, Owners, Owning, Inside, PCs

(* What keeps the stack frames of waiters alive: a thread moves, and it is *)
(* neither queued nor signalling, or it stays on its way to its sema_down. *)
LEMMA WaitersKept ==
  ASSUME IInv, NEW t \in Thread, NEW p \in PCs, Goto(t, p), UNCHANGED condv,
         p \notin {"signal", "down"}, pc[t] # "signal",
         pc[t] = "down" => \A c \in Cond : t \notin Range(cond_waiters[c]),
         pc[t] = "down" => \A u \in Thread : pc[u] = "signal" => target[u] # t,
         pc[t] = "wait" => p = "release",
         pc[t] = "release" => cond[t] = NULL
  PROVE  WaiterAlive'
<1>1. ASSUME NEW u \in Thread PROVE pc'[u] = IF u = t THEN p ELSE pc[u]
  BY DEF IInv, TypeOK, Goto
<1>2. ASSUME NEW c \in Cond
      PROVE  /\ IsInjective(cond_waiters[c])
             /\ \A u \in Range(cond_waiters[c]) :
                  pc'[u] \in {"wait", "release", "down"} /\ cond[u] = c /\ wvalue[u] = 0
  <2>1. Range(cond_waiters[c]) \subseteq Thread
    BY EmptyIffNoElement DEF IInv, TypeOK
  <2>2. IsInjective(cond_waiters[c])
    BY DEF IInv, WaiterAlive
  <2>3. ASSUME NEW u \in Range(cond_waiters[c])
        PROVE  pc'[u] \in {"wait", "release", "down"} /\ cond[u] = c /\ wvalue[u] = 0
    <3>1. pc[u] \in {"wait", "release", "down"} /\ cond[u] = c /\ wvalue[u] = 0
      BY DEF IInv, WaiterAlive
    <3>2. QED
      BY <3>1, <2>1, <1>1, SynchAssumption
  <2>4. QED
    BY <2>2, <2>3
<1>3. ASSUME NEW u \in Thread, pc'[u] = "signal"
      PROVE  /\ pc'[target[u]] = "down" /\ wvalue[target[u]] = 0
             /\ \A c \in Cond : target[u] \notin Range(cond_waiters[c])
  <2>1. pc[u] = "signal"
    BY <1>1, <1>3
  <2>2. /\ pc[target[u]] = "down" /\ wvalue[target[u]] = 0
        /\ \A c \in Cond : target[u] \notin Range(cond_waiters[c])
    BY <2>1 DEF IInv, WaiterAlive
  <2>3. target[u] \in Thread
    BY <2>1 DEF IInv, CondOK
  <2>4. QED
    BY <2>1, <2>2, <2>3, <1>1
<1>4. QED
  BY <1>2, <1>3 DEF WaiterAlive, condv

(* ... and no signal is lost. *)
LEMMA SignalsKept ==
  ASSUME IInv, NEW t \in Thread, NEW p \in PCs, Goto(t, p),
         UNCHANGED condv, UNCHANGED blocked \/ blocked' = [blocked EXCEPT ![t] = TRUE],
         p \notin {"signal", "down"}, pc[t] # "signal"
  PROVE  NoLostSignal'
<1>1. ASSUME NEW u \in Thread PROVE pc'[u] = IF u = t THEN p ELSE pc[u]
  BY DEF IInv, TypeOK, Goto
<1>2. ASSUME NEW u \in Thread, pc'[u] = "down", blocked'[u] \/ wvalue[u] = 0
      PROVE  \/ u \in Range(cond_waiters[cond[u]])
             \/ \E v \in Thread : pc'[v] = "signal" /\ target[v] = u
  <2>1. pc[u] = "down" /\ u # t
    BY <1>1, <1>2
  <2>2. blocked[u] \/ wvalue[u] = 0
    BY <1>2, <2>1 DEF IInv, TypeOK
  <2>3. \/ u \in Range(cond_waiters[cond[u]])
        \/ \E v \in Thread : pc[v] = "signal" /\ target[v] = u
    BY <2>1, <2>2 DEF IInv, NoLostSignal
  <2>4. QED
    BY <2>3, <1>1
<1>3. QED
  BY <1>2 DEF NoLostSignal, condv

(* sema_down on a lock whose semaphore is 0: the thread queues itself. *)
LEMMA LockDownBlocks ==
  ASSUME IInv, NEW t \in Thread, pc[t] \in {"out", "acquire"}, ~blocked[t],
         value = 0, waiters' = Append(waiters, t), blocked' = [blocked EXCEPT ![t] = TRUE],
         Goto(t, "acquire"), UNCHANGED <<holder, value, condv>>
  PROVE  IInv'
<1>1. TypeOK'
  BY DEF IInv, TypeOK, Goto, PCs, condv
<1>2. Owners' = Owners
  BY OwnersMove DEF IInv, TypeOK, PCs, Owners, Owning, Inside
<1>3. LockOK'
  BY <1>2 DEF IInv, LockOK
<1>4. HolderOK'
  BY DEF IInv, TypeOK, HolderOK, Goto, Inside, PCs
<1>5. WaitersOK'
  <2>1. t \notin Range(waiters)
    BY DEF IInv, WaitersOK
  <2>2. Range(waiters') = Range(waiters) \cup {t} /\ IsInjective(waiters')
    BY <2>1, PushBack DEF IInv, TypeOK, WaitersOK
  <2>3. \A u \in Range(waiters) : u \in Thread
    BY EmptyIffNoElement DEF IInv, TypeOK
  <2>4. QED
    BY <2>2, <2>3 DEF IInv, TypeOK, WaitersOK, Goto
<1>6. LockNotForgotten'
  BY DEF LockNotForgotten
<1>7. CondOK' /\ LastOK' /\ BlockedOK'
  BY DEF IInv, TypeOK, CondOK, LastOK, BlockedOK, Goto, condv, PCs
<1>8. WaiterAlive'
  BY WaitersKept DEF PCs
<1>9. NoLostSignal'
  BY SignalsKept, Zenon DEF PCs
<1>10. QED
  BY <1>1, <1>3, <1>4, <1>5, <1>6, <1>7, <1>8, <1>9 DEF IInv

(* sema_down, or sema_try_down, that takes the lock *)
LEMMA LockDownTakes ==
  ASSUME IInv, NEW t \in Thread, pc[t] \in {"out", "acquire"}, ~blocked[t],
         value > 0, value' = value - 1, Goto(t, "got"),
         UNCHANGED <<holder, waiters, blocked, condv>>
  PROVE  IInv'
<1>1. TypeOK'
  BY DEF IInv, TypeOK, Goto, PCs, condv
<1>2. value = 1 /\ Owners = {}
  BY FreeLock DEF IInv
<1>3. LockOK'
  <2>1. Owners' = {t}
    BY <1>2, OwnersMove DEF IInv, PCs, Owning
  <2>2. QED
    BY <2>1, <1>2 DEF LockOK
<1>4. HolderOK'
  BY DEF IInv, TypeOK, HolderOK, Goto, Inside, PCs
<1>5. WaitersOK'
  BY EmptyIffNoElement DEF IInv, TypeOK, WaitersOK, Goto
<1>6. LockNotForgotten'
  BY <1>2 DEF LockNotForgotten
<1>7. CondOK' /\ LastOK' /\ BlockedOK'
  BY DEF IInv, TypeOK, CondOK, LastOK, BlockedOK, Goto, condv, PCs
<1>8. WaiterAlive'
  BY WaitersKept DEF PCs
<1>9. NoLostSignal'
  BY SignalsKept DEF PCs
<1>10. QED
  BY <1>1, <1>3, <1>4, <1>5, <1>6, <1>7, <1>8, <1>9 DEF IInv

(* lock_acquire and each further turn of its sema_down, and               *)
(* lock_try_acquire                                                        *)
LEMMA AcquireStep ==
  ASSUME IInv, NEW t \in Thread, LockAcquire(t) \/ LockAcquireTurn(t) \/ LockTryAcquire(t)
  PROVE  IInv'
<1>1. pc[t] \in {"out", "acquire"} /\ ~blocked[t] /\ UNCHANGED <<holder, condv>>
  BY DEF IInv, BlockedOK, TypeOK, LockAcquire, LockAcquireTurn, LockTryAcquire, LockDown
<1>2. CASE /\ value = 0
           /\ waiters' = Append(waiters, t)
           /\ blocked' = [blocked EXCEPT ![t] = TRUE]
           /\ Goto(t, "acquire")
           /\ UNCHANGED <<holder, value>>
  BY <1>1, <1>2, LockDownBlocks, Zenon
<1>3. CASE /\ value > 0
           /\ value' = value - 1
           /\ Goto(t, "got")
           /\ UNCHANGED <<holder, waiters, blocked>>
  BY <1>1, <1>3, LockDownTakes
<1>4. QED
  BY <1>2, <1>3 DEF LockAcquire, LockAcquireTurn, LockTryAcquire, LockDown

(* A step of the owner that only moves it, within its ownership, and       *)
(* changes holder accordingly                                              *)
LEMMA HolderStep ==
  ASSUME IInv, NEW t \in Thread, SetHolder(t) \/ LockRelease(t)
  PROVE  IInv'
<1>1. /\ pc[t] \in Owning /\ pc[t] # "release"
      /\ UNCHANGED <<value, waiters, condv, blocked>>
      /\ \/ pc[t] = "got" /\ holder' = t /\ Goto(t, "in")
         \/ pc[t] \in {"in", "wait"} /\ holder' = NULL /\ Goto(t, "release")
  BY DEF SetHolder, LockRelease, Owning, Inside
<1>2. value = 0 /\ Owners = {t} /\ \A u \in Thread : pc[u] \in Owning => u = t
  BY <1>1, OnlyOwner DEF IInv
<1>3. TypeOK'
  BY <1>1, Zenon DEF IInv, TypeOK, Goto, PCs, condv
<1>4. LockOK'
  <2>1. Owners' = {t}
    BY <1>1, <1>2, OwnersMove DEF IInv, PCs, Owning, Inside
  <2>2. QED
    BY <2>1, <1>1, <1>2 DEF LockOK
<1>5. HolderOK'
  BY <1>1, <1>2, SynchAssumption DEF IInv, TypeOK, HolderOK, Goto, Inside, Owning
<1>6. WaitersOK'
  BY <1>1, EmptyIffNoElement DEF IInv, TypeOK, WaitersOK, Goto
<1>7. LockNotForgotten'
  BY <1>1, <1>2 DEF LockNotForgotten
<1>8. CondOK' /\ BlockedOK'
  BY <1>1 DEF IInv, TypeOK, CondOK, BlockedOK, Goto, condv, PCs
<1>9. LastOK'
  BY <1>1 DEF IInv, TypeOK, CondOK, LastOK, Goto, condv, PCs
<1>10. WaiterAlive'
  BY <1>1, WaitersKept DEF PCs
<1>11. NoLostSignal'
  BY <1>1, SignalsKept DEF PCs
<1>12. QED
  BY <1>3, <1>4, <1>5, <1>6, <1>7, <1>8, <1>9, <1>10, <1>11 DEF IInv

(* The sema_up of lock_release wakes the first in the lock's wait list, if *)
(* there is one, and touches no other thread.                              *)
LEMMA WakeFirst ==
  ASSUME IInv, NEW t \in Thread, ReleaseUp(t)
  PROVE  /\ waiters' \in Seq(Thread) /\ blocked' \in [Thread -> BOOLEAN]
         /\ \A u \in Thread : blocked'[u] = blocked[u] \/ (pc[u] = "acquire" /\ ~blocked'[u])
         /\ IsInjective(waiters')
         /\ \A u \in Range(waiters') : u \in Range(waiters) /\ blocked'[u]
         /\ waiters' # <<>> => \E u \in Thread : pc[u] = "acquire" /\ ~blocked'[u]
<1> DEFINE h == Head(waiters)
<1>1. CASE waiters = <<>>
  BY <1>1, EmptyList DEF IInv, TypeOK, ReleaseUp
<1>2. CASE waiters # <<>>
  <2>1. waiters' = Tail(waiters) /\ blocked' = [blocked EXCEPT ![h] = FALSE]
    BY <1>2 DEF ReleaseUp, Wake
  <2>2. /\ h \in Thread /\ h \in Range(waiters) /\ Tail(waiters) \in Seq(Thread)
        /\ IsInjective(Tail(waiters)) /\ Range(Tail(waiters)) = Range(waiters) \ {h}
    BY <1>2, PopFront DEF IInv, TypeOK, WaitersOK
  <2>3. pc[h] = "acquire"
    BY <2>2 DEF IInv, WaitersOK
  <2>4. ASSUME NEW u \in Range(Tail(waiters)) PROVE u \in Range(waiters) /\ blocked'[u]
    <3>1. u \in Thread /\ u \in Range(waiters) /\ u # h
      BY <2>2, EmptyIffNoElement
    <3>2. blocked[u]
      BY <3>1 DEF IInv, WaitersOK
    <3>3. QED
      BY <3>1, <3>2, <2>1 DEF IInv, TypeOK
  <2> HIDE DEF h
  <2>5. QED
    BY <2>1, <2>2, <2>3, <2>4, Zenon DEF IInv, TypeOK
<1>3. QED
  BY <1>1, <1>2

(* The sema_up of lock_release, called by its user or by cond_wait *)
LEMMA ReleaseUpStep ==
  ASSUME IInv, NEW t \in Thread, ReleaseUp(t)
  PROVE  IInv'
<1> DEFINE p == IF cond[t] = NULL THEN "out" ELSE "down"
<1>1. /\ pc[t] = "release" /\ value' = value + 1 /\ Goto(t, p)
      /\ UNCHANGED <<holder, condv>>
  BY DEF ReleaseUp
<1>2. value = 0 /\ Owners = {t} /\ \A u \in Thread : pc[u] \in Owning => u = t
  BY <1>1, OnlyOwner DEF IInv, Owning
<1>3. ASSUME NEW u \in Thread PROVE pc'[u] = IF u = t THEN p ELSE pc[u]
  BY <1>1 DEF IInv, TypeOK, Goto
<1>4. p \in PCs \ Owning
  BY DEF PCs, Owning, Inside
<1>5. cond_waiters' = cond_waiters /\ wvalue' = wvalue /\ cond' = cond /\ target' = target
  BY <1>1 DEF condv
<1>6. ~blocked[t] /\ ~blocked'[t]
  BY <1>1, WakeFirst DEF IInv, BlockedOK, TypeOK
<1>7. TypeOK'
  BY <1>1, <1>2, <1>4, <1>5, WakeFirst DEF IInv, TypeOK, Goto
<1>8. LockOK'
  BY <1>1, <1>2, <1>4, OwnersMove DEF IInv, LockOK
<1>9. HolderOK'
  BY <1>1, <1>3, <1>4 DEF IInv, HolderOK, Owning, Inside
<1>10. WaitersOK'
  <2>1. ASSUME NEW u \in Range(waiters') PROVE pc'[u] = "acquire" /\ blocked'[u]
    <3>1. u \in Range(waiters) /\ blocked'[u] /\ u \in Thread
      BY WakeFirst, EmptyIffNoElement DEF IInv, TypeOK
    <3>2. pc[u] = "acquire"
      BY <3>1 DEF IInv, WaitersOK
    <3>3. QED
      BY <3>1, <3>2, <1>1, <1>3
  <2>2. QED
    BY <2>1, WakeFirst DEF WaitersOK
<1>11. LockNotForgotten'
  BY <1>1, <1>3, WakeFirst DEF LockNotForgotten
<1> HIDE DEF p
<1>12. CondOK'
  BY <1>1, <1>3, <1>5 DEF IInv, CondOK, TypeOK, p
<1>13. LastOK'
  BY <1>1, <1>3, <1>4, <1>5 DEF IInv, LastOK, p
<1>14. BlockedOK'
  BY <1>3, <1>5, <1>6, WakeFirst DEF IInv, BlockedOK
<1>15. WaiterAlive'
  <2>1. ASSUME NEW c \in Cond, NEW u \in Range(cond_waiters[c])
        PROVE  pc'[u] \in {"wait", "release", "down"} /\ cond[u] = c /\ wvalue[u] = 0
    <3>1. pc[u] \in {"wait", "release", "down"} /\ cond[u] = c /\ wvalue[u] = 0
      BY DEF IInv, WaiterAlive
    <3>2. u \in Thread
      BY EmptyIffNoElement DEF IInv, TypeOK
    <3>3. QED
      BY <3>1, <3>2, <1>3, SynchAssumption DEF p
  <2>2. ASSUME NEW u \in Thread PROVE pc'[u] # "signal"
    BY <1>2, <1>3, <1>4 DEF Owning, Inside, p
  <2>3. QED
    BY <2>1, <2>2, <1>5 DEF IInv, WaiterAlive
<1>16. NoLostSignal'
  <2>1. ASSUME NEW u \in Thread, pc'[u] = "down", blocked'[u] \/ wvalue[u] = 0
        PROVE  u \in Range(cond_waiters[cond[u]])
    <3>1. CASE u = t
      <4>1. cond[t] \in Cond
        BY <3>1, <2>1, <1>3 DEF p, IInv, TypeOK
      <4>2. cond_waiters[cond[t]] # <<>> /\ cond_waiters[cond[t]][Len(cond_waiters[cond[t]])] = t
        BY <4>1, <1>1, SynchAssumption DEF IInv, LastOK
      <4>3. cond_waiters[cond[t]] \in Seq(Thread)
        BY <4>1 DEF IInv, TypeOK
      <4>4. QED
        BY <4>2, <4>3, <3>1 DEF Range
    <3>2. CASE u # t
      <4>1. pc[u] = "down" /\ (blocked[u] \/ wvalue[u] = 0)
        BY <3>2, <2>1, <1>3, WakeFirst
      <4>2. \A v \in Thread : pc[v] # "signal"
        BY <1>1, <1>2 DEF Owning, Inside
      <4>3. QED
        BY <4>1, <4>2 DEF IInv, NoLostSignal
    <3>3. QED
      BY <3>1, <3>2
  <2>2. QED
    BY <2>1, <1>5 DEF NoLostSignal
<1>17. QED
  BY <1>7, <1>8, <1>9, <1>10, <1>11, <1>12, <1>13, <1>14, <1>15, <1>16 DEF IInv

(* cond_wait queues a fresh semaphore at the end of the condition's list. *)
LEMMA CondWaitStep ==
  ASSUME IInv, NEW t \in Thread, NEW c \in Cond, CondWait(t, c)
  PROVE  IInv'
<1> DEFINE q == cond_waiters[c]
<1>1. /\ pc[t] = "in" /\ wvalue' = [wvalue EXCEPT ![t] = 0]
      /\ cond_waiters' = [cond_waiters EXCEPT ![c] = Append(q, t)]
      /\ cond' = [cond EXCEPT ![t] = c] /\ Goto(t, "wait")
      /\ UNCHANGED <<holder, value, waiters, target, blocked>>
  BY DEF CondWait, lockv
<1>2. value = 0 /\ Owners = {t} /\ \A u \in Thread : pc[u] \in Owning => u = t
  BY <1>1, OnlyOwner DEF IInv, Owning, Inside
<1>3. ASSUME NEW u \in Thread PROVE pc'[u] = IF u = t THEN "wait" ELSE pc[u]
  BY <1>1 DEF IInv, TypeOK, Goto
<1>4. ASSUME NEW d \in Cond
      PROVE  /\ cond_waiters[d] \in Seq(Thread) /\ IsInjective(cond_waiters[d])
             /\ Range(cond_waiters[d]) \subseteq Thread /\ t \notin Range(cond_waiters[d])
  BY <1>1, EmptyIffNoElement, Zenon DEF IInv, TypeOK, WaiterAlive
<1>5. /\ Append(q, t) \in Seq(Thread) /\ Range(Append(q, t)) = Range(q) \cup {t}
      /\ IsInjective(Append(q, t)) /\ Append(q, t) # <<>>
      /\ Append(q, t)[Len(Append(q, t))] = t
  BY <1>4, PushBack
<1>6. ASSUME NEW d \in Cond PROVE cond_waiters'[d] = IF d = c THEN Append(q, t) ELSE cond_waiters[d]
  BY <1>1 DEF IInv, TypeOK
<1> HIDE DEF q
<1>7. TypeOK'
  BY <1>1, <1>5, <1>6 DEF IInv, TypeOK, Goto, PCs
<1>8. LockOK'
  <2>1. Owners' = {t}
    BY <1>1, <1>2, OwnersMove DEF IInv, PCs, Owning, Inside
  <2>2. QED
    BY <2>1, <1>1, <1>2 DEF LockOK
<1>9. HolderOK'
  BY <1>1, <1>3 DEF IInv, HolderOK, Inside
<1>10. WaitersOK' /\ LockNotForgotten'
  BY <1>1, <1>2, EmptyIffNoElement DEF IInv, TypeOK, WaitersOK, LockNotForgotten, Goto
<1>11. CondOK' /\ BlockedOK'
  BY <1>1, <1>3 DEF IInv, TypeOK, CondOK, BlockedOK
<1>12. LastOK'
  <2>1. ASSUME NEW u \in Thread, pc'[u] = "wait" \/ (pc'[u] = "release" /\ cond'[u] # NULL)
        PROVE  u = t
    BY <2>1, <1>2, <1>3 DEF Owning, Inside
  <2>2. cond'[t] = c
    BY <1>1 DEF IInv, TypeOK
  <2>3. QED
    BY <2>1, <2>2, <1>5, <1>6, Zenon DEF LastOK
<1>13. WaiterAlive'
  <2>1. ASSUME NEW d \in Cond
        PROVE  /\ IsInjective(cond_waiters'[d])
               /\ \A u \in Range(cond_waiters'[d]) :
                    pc'[u] \in {"wait", "release", "down"} /\ cond'[u] = d /\ wvalue'[u] = 0
    <3>1. ASSUME NEW u \in Range(cond_waiters[d])
          PROVE  pc'[u] \in {"wait", "release", "down"} /\ cond'[u] = d /\ wvalue'[u] = 0
      <4>1. u \in Thread /\ u # t
        BY <1>4
      <4>2. pc[u] \in {"wait", "release", "down"} /\ cond[u] = d /\ wvalue[u] = 0
        BY DEF IInv, WaiterAlive
      <4>3. QED
        BY <4>1, <4>2, <1>1, <1>3 DEF IInv, TypeOK
    <3>2. pc'[t] = "wait" /\ cond'[t] = c /\ wvalue'[t] = 0
      BY <1>1, <1>3 DEF IInv, TypeOK
    <3>3. QED
      BY <3>1, <3>2, <1>4, <1>5, <1>6 DEF q
  <2>2. ASSUME NEW u \in Thread PROVE pc'[u] # "signal"
    BY <1>2, <1>3 DEF Owning, Inside
  <2>3. QED
    BY <2>1, <2>2 DEF WaiterAlive
<1>14. NoLostSignal'
  <2>1. ASSUME NEW u \in Thread, pc'[u] = "down", blocked'[u] \/ wvalue'[u] = 0
        PROVE  u \in Range(cond_waiters'[cond'[u]])
    <3>1. u # t /\ pc[u] = "down" /\ (blocked[u] \/ wvalue[u] = 0) /\ cond'[u] = cond[u]
      BY <2>1, <1>1, <1>3 DEF IInv, TypeOK
    <3>2. \A v \in Thread : pc[v] # "signal"
      BY <1>1, <1>2 DEF Owning, Inside
    <3>3. u \in Range(cond_waiters[cond[u]]) /\ cond[u] \in Cond
      BY <3>1, <3>2 DEF IInv, NoLostSignal, CondOK
    <3>4. QED
      BY <3>1, <3>3, <1>5, <1>6 DEF q
  <2>2. QED
    BY <2>1 DEF NoLostSignal
<1>15. QED
  BY <1>7, <1>8, <1>9, <1>10, <1>11, <1>12, <1>13, <1>14 DEF IInv

(* One turn of the sema_down in cond_wait *)
LEMMA WaiterDownStep ==
  ASSUME IInv, NEW t \in Thread, WaiterDown(t)
  PROVE  IInv'
<1>1. /\ pc[t] = "down" /\ ~blocked[t]
      /\ UNCHANGED <<holder, value, waiters, cond_waiters, target>>
  BY DEF WaiterDown, lockv
<1>2. CASE /\ wvalue[t] = 0
           /\ blocked' = [blocked EXCEPT ![t] = TRUE]
           /\ UNCHANGED <<wvalue, cond, pc>>
  <2>1. TypeOK'
    BY <1>1, <1>2 DEF IInv, TypeOK
  <2>2. LockOK' /\ HolderOK' /\ CondOK' /\ LastOK' /\ WaiterAlive'
    BY <1>1, <1>2 DEF IInv, LockOK, Owners, HolderOK, CondOK, LastOK, WaiterAlive
  <2>3. ASSUME NEW u \in Thread PROVE blocked'[u] = (u = t \/ blocked[u])
    BY <1>2, Zenon DEF IInv, TypeOK
  <2>4. WaitersOK'
    BY <1>1, <1>2, <2>3, EmptyIffNoElement DEF IInv, TypeOK, WaitersOK
  <2>5. LockNotForgotten' /\ BlockedOK' /\ NoLostSignal'
    BY <1>1, <1>2, <2>3 DEF IInv, LockNotForgotten, BlockedOK, NoLostSignal
  <2>6. QED
    BY <2>1, <2>2, <2>4, <2>5 DEF IInv
<1>3. CASE /\ wvalue[t] > 0
           /\ wvalue' = [wvalue EXCEPT ![t] = @ - 1]
           /\ cond' = [cond EXCEPT ![t] = NULL]
           /\ Goto(t, "acquire")
           /\ UNCHANGED blocked
  <2>1. wvalue[t] # 0 /\ wvalue[t] \in Nat
    BY <1>3 DEF IInv, TypeOK
  <2>2. TypeOK'
    BY <1>1, <1>3, <2>1 DEF IInv, TypeOK, Goto, PCs
  <2>3. ASSUME NEW u \in Thread
        PROVE  /\ pc'[u] = IF u = t THEN "acquire" ELSE pc[u]
               /\ cond'[u] = IF u = t THEN NULL ELSE cond[u]
               /\ u # t => wvalue'[u] = wvalue[u]
    BY <1>3 DEF IInv, TypeOK, Goto
  <2>4. Owners' = Owners
    BY <1>1, <1>3, OwnersMove DEF IInv, Owners, Owning, Inside, PCs
  <2>5. LockOK' /\ HolderOK'
    BY <1>1, <2>3, <2>4 DEF IInv, LockOK, HolderOK, Inside
  <2>6. WaitersOK'
    BY <1>1, <1>3, <2>3, EmptyIffNoElement DEF IInv, TypeOK, WaitersOK
  <2>7. LockNotForgotten' /\ BlockedOK'
    BY <1>1, <1>3, <2>3 DEF IInv, LockNotForgotten, BlockedOK
  <2>8. CondOK' /\ LastOK'
    BY <1>1, <2>3 DEF IInv, CondOK, LastOK
  <2>9. WaiterAlive'
    <3>1. ASSUME NEW c \in Cond, NEW u \in Range(cond_waiters[c])
          PROVE  pc'[u] \in {"wait", "release", "down"} /\ cond'[u] = c /\ wvalue'[u] = 0
      <4>1. pc[u] \in {"wait", "release", "down"} /\ cond[u] = c /\ wvalue[u] = 0
        BY DEF IInv, WaiterAlive
      <4>2. u \in Thread /\ u # t
        BY <4>1, <2>1, EmptyIffNoElement DEF IInv, TypeOK
      <4>3. QED
        BY <4>1, <4>2, <2>3
    <3>2. ASSUME NEW u \in Thread, pc'[u] = "signal"
          PROVE  /\ pc'[target[u]] = "down" /\ wvalue'[target[u]] = 0
                 /\ \A c \in Cond : target[u] \notin Range(cond_waiters[c])
      <4>1. pc[u] = "signal"
        BY <2>3, <3>2
      <4>2. /\ pc[target[u]] = "down" /\ wvalue[target[u]] = 0 /\ target[u] \in Thread
            /\ \A c \in Cond : target[u] \notin Range(cond_waiters[c])
        BY <4>1 DEF IInv, WaiterAlive, CondOK
      <4>3. QED
        BY <4>2, <2>1, <2>3
    <3>3. QED
      BY <3>1, <3>2, <1>1 DEF IInv, WaiterAlive
  <2>10. NoLostSignal'
    <3>1. ASSUME NEW u \in Thread, pc'[u] = "down", blocked'[u] \/ wvalue'[u] = 0
          PROVE  \/ u \in Range(cond_waiters[cond'[u]])
                 \/ \E v \in Thread : pc'[v] = "signal" /\ target[v] = u
      <4>1. u # t /\ pc[u] = "down" /\ (blocked[u] \/ wvalue[u] = 0) /\ cond'[u] = cond[u]
        BY <3>1, <2>3, <1>3
      <4>2. \/ u \in Range(cond_waiters[cond[u]])
            \/ \E v \in Thread : pc[v] = "signal" /\ target[v] = u
        BY <4>1 DEF IInv, NoLostSignal
      <4>3. QED
        BY <4>1, <4>2, <2>3, <1>1
    <3>2. QED
      BY <3>1, <1>1 DEF NoLostSignal
  <2>11. QED
    BY <2>2, <2>5, <2>6, <2>7, <2>8, <2>9, <2>10 DEF IInv
<1>4. QED
  BY <1>2, <1>3 DEF WaiterDown

(* While the owner is in none of cond_wait's steps, all that are queued    *)
(* have released the lock.                                                 *)
LEMMA QueuedAreDown ==
  ASSUME IInv, NEW t \in Thread, pc[t] \in {"in", "signal", "broadcast"},
         NEW c \in Cond, NEW u \in Range(cond_waiters[c])
  PROVE  u \in Thread /\ u # t /\ pc[u] = "down" /\ cond[u] = c /\ wvalue[u] = 0
<1>1. \A v \in Thread : pc[v] \in Owning => v = t
  BY OnlyOwner DEF IInv, Owning, Inside
<1>2. u \in Thread
  BY EmptyIffNoElement DEF IInv, TypeOK
<1>3. pc[u] \in {"wait", "release", "down"} /\ cond[u] = c /\ wvalue[u] = 0
  BY DEF IInv, WaiterAlive
<1>4. QED
  BY <1>1, <1>2, <1>3 DEF Owning, Inside

(* cond_signal, or a turn of cond_broadcast, takes the first waiter off    *)
(* the list.                                                               *)
LEMMA PopStep ==
  ASSUME IInv, NEW t \in Thread, NEW c \in Cond, pc[t] \in {"in", "broadcast"}, PopWaiter(t, c),
         UNCHANGED <<lockv, wvalue, cond, blocked>>
  PROVE  IInv'
<1> DEFINE q == cond_waiters[c]
           h == Head(q)
<1>1. /\ q # <<>> /\ cond_waiters' = [cond_waiters EXCEPT ![c] = Tail(q)]
      /\ target' = [target EXCEPT ![t] = h] /\ Goto(t, "signal")
      /\ UNCHANGED <<holder, value, waiters, wvalue, cond, blocked>>
  BY DEF PopWaiter, lockv
<1>2. value = 0 /\ Owners = {t} /\ \A u \in Thread : pc[u] \in Owning => u = t
  BY OnlyOwner DEF IInv, Owning, Inside
<1>3. ASSUME NEW u \in Thread PROVE pc'[u] = IF u = t THEN "signal" ELSE pc[u]
  BY <1>1 DEF IInv, TypeOK, Goto
<1>4. ASSUME NEW d \in Cond
      PROVE  cond_waiters[d] \in Seq(Thread) /\ IsInjective(cond_waiters[d])
  BY DEF IInv, TypeOK, WaiterAlive
<1>5. /\ h \in Thread /\ h \in Range(q) /\ Tail(q) \in Seq(Thread)
      /\ IsInjective(Tail(q)) /\ Range(Tail(q)) = Range(q) \ {h}
  BY <1>1, <1>4, PopFront
<1>6. h # t /\ pc[h] = "down" /\ cond[h] = c /\ wvalue[h] = 0
  BY <1>5, QueuedAreDown
<1>7. ASSUME NEW d \in Cond PROVE cond_waiters'[d] = IF d = c THEN Tail(q) ELSE cond_waiters[d]
  BY <1>1 DEF IInv, TypeOK
<1> HIDE DEF q, h
<1>8. TypeOK'
  BY <1>1, <1>5, <1>7 DEF IInv, TypeOK, Goto, PCs
<1>9. LockOK'
  <2>1. Owners' = {t}
    BY <1>1, <1>2, OwnersMove DEF IInv, PCs, Owning, Inside
  <2>2. QED
    BY <2>1, <1>1, <1>2 DEF LockOK
<1>10. HolderOK'
  BY <1>1, <1>3 DEF IInv, HolderOK, Inside
<1>11. WaitersOK' /\ LockNotForgotten'
  BY <1>1, <1>2, EmptyIffNoElement DEF IInv, TypeOK, WaitersOK, LockNotForgotten, Goto
<1>12. CondOK' /\ BlockedOK'
  BY <1>1, <1>3, <1>5 DEF IInv, TypeOK, CondOK, BlockedOK
<1>13. LastOK'
  <2>1. ASSUME NEW u \in Thread PROVE pc'[u] \notin {"wait", "release"}
    BY <1>2, <1>3 DEF Owning, Inside
  <2>2. QED
    BY <2>1 DEF LastOK
<1>14. WaiterAlive'
  <2>1. ASSUME NEW d \in Cond
        PROVE  /\ IsInjective(cond_waiters'[d])
               /\ \A u \in Range(cond_waiters'[d]) :
                    pc'[u] \in {"wait", "release", "down"} /\ cond[u] = d /\ wvalue[u] = 0
               /\ h \notin Range(cond_waiters'[d])
    <3>1. Range(cond_waiters'[d]) \subseteq Range(cond_waiters[d]) /\ IsInjective(cond_waiters'[d])
      BY <1>4, <1>5, <1>7 DEF q
    <3>2. ASSUME NEW u \in Range(cond_waiters[d])
          PROVE  pc'[u] = "down" /\ cond[u] = d /\ wvalue[u] = 0
      BY <1>3, QueuedAreDown
    <3>3. h \notin Range(cond_waiters'[d])
      BY <3>1, <3>2, <1>5, <1>6, <1>7
    <3>4. QED
      BY <3>1, <3>2, <3>3, Zenon
  <2>2. ASSUME NEW u \in Thread, pc'[u] = "signal" PROVE u = t
    BY <2>2, <1>2, <1>3 DEF Owning, Inside
  <2>3. target'[t] = h /\ pc'[h] = "down"
    BY <1>1, <1>3, <1>5, <1>6 DEF IInv, TypeOK
  <2>4. QED
    BY <2>1, <2>2, <2>3, <1>1, <1>6 DEF WaiterAlive
<1>15. NoLostSignal'
  <2>1. ASSUME NEW u \in Thread, pc'[u] = "down", blocked[u] \/ wvalue[u] = 0
        PROVE  \/ u \in Range(cond_waiters'[cond[u]])
               \/ \E v \in Thread : pc'[v] = "signal" /\ target'[v] = u
    <3>1. pc[u] = "down" /\ u # t
      BY <2>1, <1>3
    <3>2. \A v \in Thread : pc[v] # "signal"
      BY <1>2 DEF Owning, Inside
    <3>3. u \in Range(cond_waiters[cond[u]]) /\ cond[u] \in Cond
      BY <3>1, <3>2, <2>1 DEF IInv, NoLostSignal, CondOK
    <3>4. CASE u = h
      BY <3>4, <1>1, <1>3, Zenon DEF IInv, TypeOK
    <3>5. CASE u # h
      BY <3>3, <3>5, <1>5, <1>7 DEF q
    <3>6. QED
      BY <3>4, <3>5
  <2>2. QED
    BY <2>1, <1>1 DEF NoLostSignal
<1>16. QED
  BY <1>8, <1>9, <1>10, <1>11, <1>12, <1>13, <1>14, <1>15 DEF IInv

(* The sema_up of the waiter that was popped *)
LEMMA SignalUpStep ==
  ASSUME IInv, NEW t \in Thread, SignalUp(t)
  PROVE  IInv'
<1> DEFINE w == target[t]
           p == IF cond[t] = NULL THEN "in" ELSE "broadcast"
<1>1. /\ pc[t] = "signal" /\ wvalue' = [wvalue EXCEPT ![w] = @ + 1]
      /\ blocked' = [blocked EXCEPT ![w] = FALSE] /\ target' = [target EXCEPT ![t] = NULL]
      /\ Goto(t, p) /\ UNCHANGED <<holder, value, waiters, cond_waiters, cond>>
  BY DEF SignalUp, WaiterUp, lockv
<1>2. value = 0 /\ Owners = {t} /\ \A u \in Thread : pc[u] \in Owning => u = t
  BY <1>1, OnlyOwner DEF IInv, Owning, Inside
<1>3. ASSUME NEW u \in Thread PROVE pc'[u] = IF u = t THEN p ELSE pc[u]
  BY <1>1 DEF IInv, TypeOK, Goto
<1>4. /\ w \in Thread /\ w # t /\ pc[w] = "down" /\ wvalue[w] = 0
      /\ \A c \in Cond : w \notin Range(cond_waiters[c])
  BY <1>1 DEF IInv, WaiterAlive, CondOK
<1>5. p \in {"in", "broadcast"}
  OBVIOUS
<1>6. ASSUME NEW u \in Thread
      PROVE  /\ wvalue'[u] = IF u = w THEN 1 ELSE wvalue[u]
             /\ blocked'[u] = IF u = w THEN FALSE ELSE blocked[u]
  BY <1>1, <1>4 DEF IInv, TypeOK
<1>7. p = "broadcast" => cond[t] \in Cond
  BY DEF IInv, TypeOK
<1>8. p = "in" => cond[t] = NULL
  OBVIOUS
<1> HIDE DEF w, p
<1>9. TypeOK'
  BY <1>1, <1>4, <1>5 DEF IInv, TypeOK, Goto, PCs
<1>10. LockOK'
  <2>1. Owners' = {t}
    BY <1>1, <1>2, <1>5, OwnersMove DEF IInv, PCs, Owning, Inside
  <2>2. QED
    BY <2>1, <1>1, <1>2 DEF LockOK
<1>11. HolderOK'
  BY <1>1, <1>3, <1>5, Zenon DEF IInv, HolderOK, Inside
<1>12. WaitersOK' /\ LockNotForgotten'
  <2>1. \A u \in Range(waiters) : u \in Thread /\ u # w /\ u # t
    BY <1>1, <1>4, EmptyIffNoElement, Zenon DEF IInv, TypeOK, WaitersOK
  <2>2. QED
    BY <2>1, <1>1, <1>2, <1>3, <1>6 DEF IInv, WaitersOK, LockNotForgotten
<1>13. CondOK' /\ LastOK'
  BY <1>1, <1>3, <1>5, <1>7, <1>8 DEF IInv, TypeOK, CondOK, LastOK
<1>14. BlockedOK'
  BY <1>1, <1>3, <1>6, Zenon DEF IInv, BlockedOK
<1>15. WaiterAlive'
  <2>1. ASSUME NEW c \in Cond, NEW u \in Range(cond_waiters[c])
        PROVE  pc'[u] = "down" /\ cond[u] = c /\ wvalue'[u] = 0
    <3>1. u \in Thread /\ u # t /\ pc[u] = "down" /\ cond[u] = c /\ wvalue[u] = 0
      BY <1>1, QueuedAreDown
    <3>2. u # w
      BY <1>4
    <3>3. QED
      BY <3>1, <3>2, <1>3, <1>6, Zenon
  <2>2. ASSUME NEW u \in Thread PROVE pc'[u] # "signal"
    BY <1>2, <1>3, <1>5 DEF Owning, Inside
  <2>3. QED
    BY <2>1, <2>2, <1>1 DEF IInv, WaiterAlive
<1>16. NoLostSignal'
  <2>1. ASSUME NEW u \in Thread, pc'[u] = "down", blocked'[u] \/ wvalue'[u] = 0
        PROVE  u \in Range(cond_waiters[cond[u]])
    <3>0. u # w
      <4>1. ~blocked'[w] /\ wvalue'[w] = 1
        BY <1>1, <1>4 DEF IInv, TypeOK
      <4>2. QED
        BY <2>1, <4>1
    <3>1. u # w /\ u # t /\ pc[u] = "down" /\ (blocked[u] \/ wvalue[u] = 0)
      <4>1. blocked'[u] = blocked[u] /\ wvalue'[u] = wvalue[u]
        BY <3>0, <1>6, Zenon
      <4>2. u # t /\ pc[u] = "down"
        BY <2>1, <1>3, <1>5
      <4>3. QED
        BY <2>1, <3>0, <4>1, <4>2
    <3>2. ASSUME NEW v \in Thread, pc[v] = "signal" PROVE target[v] # u
      BY <3>1, <3>2, <1>2 DEF Owning, Inside, w
    <3>3. QED
      BY <3>1, <3>2 DEF IInv, NoLostSignal
  <2>2. QED
    BY <2>1, <1>1 DEF NoLostSignal
<1>17. QED
  BY <1>9, <1>10, <1>11, <1>12, <1>13, <1>14, <1>15, <1>16 DEF IInv

(* cond_broadcast starts, or finds the list empty and returns. *)
LEMMA BroadcastEdge ==
  ASSUME IInv, NEW t \in Thread, NEW p \in {"in", "broadcast"}, NEW d \in Cond \cup {NULL},
         pc[t] \in {"in", "broadcast"}, p = "in" => d = NULL, p = "broadcast" => d \in Cond,
         Goto(t, p), cond' = [cond EXCEPT ![t] = d],
         UNCHANGED <<lockv, cond_waiters, wvalue, target, blocked>>
  PROVE  IInv'
<1>1. /\ UNCHANGED <<holder, value, waiters, cond_waiters, wvalue, target, blocked>>
      /\ value = 0 /\ Owners = {t} /\ \A u \in Thread : pc[u] \in Owning => u = t
  BY OnlyOwner DEF IInv, Owning, Inside, lockv
<1>2. ASSUME NEW u \in Thread
      PROVE  pc'[u] = (IF u = t THEN p ELSE pc[u]) /\ cond'[u] = IF u = t THEN d ELSE cond[u]
  BY DEF IInv, TypeOK, Goto
<1>3. TypeOK'
  BY <1>1 DEF IInv, TypeOK, Goto, PCs
<1>4. LockOK'
  <2>1. Owners' = {t}
    BY <1>1, OwnersMove DEF IInv, PCs, Owning, Inside
  <2>2. QED
    BY <2>1, <1>1 DEF LockOK
<1>5. HolderOK'
  BY <1>1, <1>2 DEF IInv, HolderOK, Inside
<1>6. WaitersOK' /\ LockNotForgotten'
  BY <1>1, EmptyIffNoElement DEF IInv, TypeOK, WaitersOK, LockNotForgotten, Goto
<1>7. CondOK' /\ BlockedOK'
  BY <1>1, <1>2 DEF IInv, CondOK, BlockedOK
<1>8. LastOK'
  <2>1. ASSUME NEW u \in Thread PROVE pc'[u] \notin {"wait", "release"}
    BY <1>1, <1>2, Zenon DEF Owning, Inside
  <2>2. QED
    BY <2>1, Zenon DEF LastOK
<1>9. WaiterAlive'
  <2>1. ASSUME NEW c \in Cond, NEW u \in Range(cond_waiters[c])
        PROVE  pc'[u] = "down" /\ cond'[u] = c /\ wvalue[u] = 0
    <3>1. u \in Thread /\ u # t /\ pc[u] = "down" /\ cond[u] = c /\ wvalue[u] = 0
      BY QueuedAreDown
    <3>2. QED
      BY <3>1, <1>2
  <2>2. ASSUME NEW u \in Thread PROVE pc'[u] # "signal"
    BY <1>1, <1>2 DEF Owning, Inside
  <2>3. QED
    BY <2>1, <2>2, <1>1 DEF IInv, WaiterAlive
<1>10. NoLostSignal'
  <2>1. ASSUME NEW u \in Thread, pc'[u] = "down", blocked[u] \/ wvalue[u] = 0
        PROVE  u \in Range(cond_waiters[cond'[u]])
    <3>1. u # t /\ pc[u] = "down" /\ cond'[u] = cond[u]
      BY <2>1, <1>2
    <3>2. \A v \in Thread : pc[v] # "signal"
      BY <1>1 DEF Owning, Inside
    <3>3. QED
      BY <2>1, <3>1, <3>2 DEF IInv, NoLostSignal
  <2>2. QED
    BY <2>1, <1>1 DEF NoLostSignal
<1>11. QED
  BY <1>3, <1>4, <1>5, <1>6, <1>7, <1>8, <1>9, <1>10 DEF IInv

----------------------------------------------------------------------------
(* lock_init and cond_init establish the invariant. *)
LEMMA InitIInv == Init => IInv
<1> SUFFICES ASSUME Init PROVE IInv
  OBVIOUS
<1>1. TypeOK
  BY SynchAssumption DEF Init, TypeOK, PCs
<1>2. LockOK /\ HolderOK
  BY SynchAssumption DEF Init, LockOK, HolderOK, Owners, Inside
<1>3. WaitersOK /\ LockNotForgotten
  BY EmptyList DEF Init, WaitersOK, LockNotForgotten
<1>4. CondOK /\ LastOK /\ BlockedOK
  BY DEF Init, CondOK, LastOK, BlockedOK
<1>5. WaiterAlive /\ NoLostSignal
  BY EmptyList DEF Init, WaiterAlive, NoLostSignal
<1>6. QED
  BY <1>1, <1>2, <1>3, <1>4, <1>5 DEF IInv

(* Every step of every thread preserves it. *)
LEMMA NextIInv == IInv /\ [Next]_vars => IInv'
<1> SUFFICES ASSUME IInv, [Next]_vars PROVE IInv'
  OBVIOUS
<1>1. ASSUME NEW t \in Thread, Call(t) \/ LockRelease(t) \/ Continue(t) PROVE IInv'
  <2>1. CASE LockAcquire(t) \/ LockAcquireTurn(t) \/ LockTryAcquire(t)
    BY <2>1, AcquireStep
  <2>2. CASE SetHolder(t) \/ LockRelease(t)
    BY <2>2, HolderStep
  <2>3. CASE ReleaseUp(t)
    BY <2>3, ReleaseUpStep
  <2>4. CASE \E c \in Cond : CondWait(t, c)
    BY <2>4, CondWaitStep
  <2>5. CASE WaiterDown(t)
    BY <2>5, WaiterDownStep
  <2>6. CASE SignalUp(t)
    BY <2>6, SignalUpStep
  <2>7. CASE \E c \in Cond : CondSignal(t, c)
    BY <2>7, PopStep DEF CondSignal
  <2>8. CASE \E c \in Cond : CondBroadcast(t, c)
    BY <2>8, BroadcastEdge, Zenon DEF CondBroadcast
  <2>9. CASE BroadcastTurn(t)
    <3>1. pc[t] = "broadcast" /\ UNCHANGED <<lockv, wvalue, blocked>>
      BY <2>9 DEF BroadcastTurn
    <3>2. cond[t] \in Cond
      BY <3>1 DEF IInv, CondOK
    <3>3. CASE PopWaiter(t, cond[t]) /\ UNCHANGED cond
      BY <3>1, <3>2, <3>3, PopStep
    <3>4. CASE cond' = [cond EXCEPT ![t] = NULL] /\ Goto(t, "in") /\ UNCHANGED <<cond_waiters, target>>
      BY <3>1, <3>4, BroadcastEdge, Zenon
    <3>5. QED
      BY <2>9, <3>3, <3>4 DEF BroadcastTurn
  <2>10. QED
    BY <1>1, <2>1, <2>2, <2>3, <2>4, <2>5, <2>6, <2>7, <2>8, <2>9 DEF Call, Continue
<1>2. CASE UNCHANGED vars
  <2>1. UNCHANGED <<holder, value, waiters, cond_waiters, wvalue, cond, target, blocked, pc>>
    BY <1>2 DEF vars, lockv, condv
  <2>2. TypeOK' /\ LockOK' /\ HolderOK' /\ WaitersOK' /\ LockNotForgotten'
    BY <2>1, Zenon DEF IInv, TypeOK, LockOK, Owners, HolderOK, WaitersOK, LockNotForgotten
  <2>3. CondOK' /\ LastOK' /\ BlockedOK' /\ WaiterAlive' /\ NoLostSignal'
    BY <2>1 DEF IInv, CondOK, LastOK, BlockedOK, WaiterAlive, NoLostSignal
  <2>4. QED
    BY <2>2, <2>3 DEF IInv
<1>3. QED
  BY <1>1, <1>2 DEF Next

(* The inductive invariant holds in every reachable state. *)
THEOREM SynchInvariant == Spec => []IInv
  BY InitIInv, NextIInv, PTL DEF Spec

(* Type correctness of locks and condition variables. *)
THEOREM SynchTypeOK == Spec => []TypeOK
<1>1. IInv => TypeOK
  BY DEF IInv
<1>2. QED
  BY <1>1, SynchInvariant, PTL

(* Mutual exclusion, for any number of threads: at most one thread is      *)
(* between the sema_down of its lock_acquire and the sema_up of its        *)
(* lock_release, and holder names it whenever it may use the lock.         *)
THEOREM SynchOneOwner == Spec => []OneOwner
<1>1. IInv => OneOwner
  <2> SUFFICES ASSUME IInv PROVE OneOwner
    OBVIOUS
  <2>1. CASE value = 1 /\ Owners = {}
    <3>1. value + Cardinality(Owners) = 1
      BY <2>1, FS_EmptySet
    <3>2. QED
      BY <3>1 DEF IInv, HolderOK, OneOwner
  <2>2. CASE value = 0 /\ \E t \in Thread : Owners = {t}
    <3>1. PICK t \in Thread : Owners = {t}
      BY <2>2
    <3>2. Cardinality({t}) = 1
      BY FS_Singleton
    <3>3. value + Cardinality(Owners) = 1
      BY <2>2, <3>1, <3>2
    <3>4. QED
      BY <3>3 DEF IInv, HolderOK, OneOwner
  <2>3. QED
    BY <2>1, <2>2 DEF IInv, LockOK
<1>2. QED
  BY <1>1, SynchInvariant, PTL

(* No release forgets the threads that wait: while some wait for a free    *)
(* lock, one that was woken is on its way to retry.                        *)
THEOREM SynchLockNotForgotten == Spec => []LockNotForgotten
<1>1. IInv => LockNotForgotten
  BY DEF IInv
<1>2. QED
  BY <1>1, SynchInvariant, PTL

(* The semaphore on a waiter's stack is only ever reached while the waiter *)
(* is in cond_wait.                                                        *)
THEOREM SynchWaiterAlive == Spec => []WaiterAlive
<1>1. IInv => WaiterAlive
  BY DEF IInv
<1>2. QED
  BY <1>1, SynchInvariant, PTL

(* A signal between the release and the sema_down of cond_wait is not lost. *)
THEOREM SynchNoLostSignal == Spec => []NoLostSignal
<1>1. IInv => NoLostSignal
  BY DEF IInv
<1>2. QED
  BY <1>1, SynchInvariant, PTL

----------------------------------------------------------------------------
(* The queues: as the program has them while everyone in them has released *)
(* the lock, and without their last while that one has not.                *)
LEMMA WaitingRead ==
  ASSUME IInv, NEW c \in Cond
  PROVE  /\ waiting[c] \in Seq(Thread) /\ Range(waiting[c]) \subseteq Range(cond_waiters[c])
         /\ (\A u \in Range(cond_waiters[c]) : pc[u] = "down") => waiting[c] = cond_waiters[c]
<1> DEFINE q == cond_waiters[c]
           f == SubSeq(q, 1, Len(q) - 1)
<1>1. q \in Seq(Thread) /\ Len(q) \in Nat /\ DOMAIN q = 1..Len(q)
  BY DEF IInv, TypeOK
<1>2. waiting[c] = IF q # <<>> /\ pc[q[Len(q)]] # "down" THEN f ELSE q
  BY DEF waiting, Waiting
<1>3. ASSUME q # <<>> PROVE Len(q) \in DOMAIN q
  BY <1>1, <1>3
<1>4. ASSUME q # <<>> PROVE f \in Seq(Thread) /\ Range(f) \subseteq Range(q)
  <2>1. f \in Seq(Thread) /\ DOMAIN f = 1..Len(q)-1 /\ \A i \in 1..Len(q)-1 : f[i] = q[i]
    BY <1>1, <1>3, <1>4
  <2>2. ASSUME NEW i \in 1..Len(q)-1 PROVE i \in DOMAIN q
    BY <1>1
  <2>3. QED
    BY <2>1, <2>2 DEF Range
<1>5. ASSUME \A u \in Range(q) : pc[u] = "down" PROVE waiting[c] = q
  BY <1>2, <1>3, <1>5 DEF Range
<1> HIDE DEF q, f
<1>6. QED
  BY <1>1, <1>2, <1>4, <1>5 DEF q

(* A step that leaves the queues alone leaves the abstract ones alone,     *)
(* unless the thread that moves is queued and reaches its sema_down.       *)
LEMMA WaitingKept ==
  ASSUME IInv, NEW t \in Thread, NEW p \in PCs, Goto(t, p), UNCHANGED cond_waiters,
         \/ \A c \in Cond : t \notin Range(cond_waiters[c])
         \/ pc[t] # "down" /\ p # "down"
  PROVE  UNCHANGED waiting
<1>1. ASSUME NEW u \in Thread PROVE pc'[u] = IF u = t THEN p ELSE pc[u]
  BY DEF IInv, TypeOK, Goto
<1>2. ASSUME NEW c \in Cond PROVE Waiting(cond_waiters[c])' = Waiting(cond_waiters[c])
  <2> DEFINE q == cond_waiters[c]
  <2>1. CASE q = <<>>
    BY <2>1 DEF Waiting
  <2>2. CASE q # <<>>
    <3>1. q \in Seq(Thread) /\ Len(q) \in DOMAIN q
      BY <2>2 DEF IInv, TypeOK
    <3>2. q[Len(q)] \in Thread /\ q[Len(q)] \in Range(q)
      BY <3>1 DEF Range
    <3>3. pc'[q[Len(q)]] = "down" <=> pc[q[Len(q)]] = "down"
      BY <3>2, <1>1
    <3>4. cond_waiters'[c] = q
      OBVIOUS
    <3>5. QED
      BY <3>3, <3>4 DEF Waiting
  <2>3. QED
    BY <2>1, <2>2
<1>3. QED
  BY <1>2 DEF waiting

(* A thread in none of cond_wait's steps is in no queue. *)
LEMMA NotQueued ==
  ASSUME IInv, NEW t \in Thread, \/ pc[t] \notin {"wait", "release", "down"}
                                 \/ cond[t] = NULL \/ wvalue[t] # 0
  PROVE  \A c \in Cond : t \notin Range(cond_waiters[c])
  BY SynchAssumption DEF IInv, WaiterAlive

(* A step of a thread that owns the lock before and after, or neither      *)
(* before nor after, and that leaves the queues alone, is a stutter.       *)
LEMMA StutterStep ==
  ASSUME IInv, NEW t \in Thread, NEW p \in PCs, Goto(t, p), UNCHANGED cond_waiters,
         pc[t] \in Owning <=> p \in Owning,
         \/ \A c \in Cond : t \notin Range(cond_waiters[c])
         \/ pc[t] # "down" /\ p # "down"
  PROVE  UNCHANGED <<owner, waiting>>
<1>1. Owners' = Owners
  <2>1. t \in Owners <=> p \in Owning
    BY DEF Owners, Owning
  <2>2. QED
    BY <2>1, OwnersMove DEF IInv
<1>2. owner' = owner
  BY <1>1 DEF owner
<1>3. QED
  BY <1>2, WaitingKept

(* The sema_down that takes the lock is the moment of entering. *)
LEMMA EnterStep ==
  ASSUME IInv, NEW t \in Thread, pc[t] \in {"out", "acquire"}, value > 0, Goto(t, "got"),
         UNCHANGED cond_waiters
  PROVE  M!Enter(t)
<1>1. Owners = {} /\ Owners' = {t}
  BY FreeLock, OwnersMove DEF IInv, PCs, Owning
<1>2. owner = NULL /\ owner' = t
  BY <1>1 DEF owner
<1>3. \A c \in Cond : t \notin Range(cond_waiters[c])
  BY NotQueued
<1>4. UNCHANGED waiting
  BY <1>3, WaitingKept DEF PCs
<1>5. t \notin M!Waiters
  <2>1. ASSUME NEW c \in Cond PROVE t \notin Range(waiting[c])
    BY <1>3, WaitingRead
  <2>2. QED
    BY <2>1 DEF M!Waiters, M!Range, Range
<1>6. QED
  BY <1>2, <1>4, <1>5 DEF M!Enter

(* lock_acquire and lock_try_acquire: a turn that blocks is a stutter. *)
LEMMA AcquireRefines ==
  ASSUME IInv, NEW t \in Thread, LockAcquire(t) \/ LockAcquireTurn(t) \/ LockTryAcquire(t)
  PROVE  M!Enter(t) \/ UNCHANGED <<owner, waiting>>
<1>1. pc[t] \in {"out", "acquire"} /\ UNCHANGED cond_waiters
  BY DEF LockAcquire, LockAcquireTurn, LockTryAcquire, condv
<1>2. (value > 0 /\ Goto(t, "got")) \/ Goto(t, "acquire")
  BY DEF LockAcquire, LockAcquireTurn, LockTryAcquire, LockDown
<1>3. CASE value > 0 /\ Goto(t, "got")
  BY <1>1, <1>3, EnterStep
<1>4. CASE Goto(t, "acquire")
  BY <1>1, <1>4, StutterStep DEF PCs, Owning, Inside
<1>5. QED
  BY <1>2, <1>3, <1>4

(* The sema_up of lock_release is the moment of leaving, and inside        *)
(* cond_wait also the moment the thread starts to wait.                    *)
LEMMA ReleaseRefines ==
  ASSUME IInv, NEW t \in Thread, ReleaseUp(t)
  PROVE  M!Leave(t) \/ \E c \in Cond : M!Wait(t, c)
<1> DEFINE p == IF cond[t] = NULL THEN "out" ELSE "down"
<1>1. pc[t] = "release" /\ Goto(t, p) /\ UNCHANGED <<cond_waiters, cond>>
  BY DEF ReleaseUp, condv
<1>2. Owners = {t} /\ Owners' = {}
  BY <1>1, OnlyOwner, OwnersMove DEF IInv, PCs, Owning, Inside
<1>3. owner = t /\ owner' = NULL
  BY <1>2 DEF owner
<1>4. CASE cond[t] = NULL
  <2>1. UNCHANGED waiting
    BY <1>1, <1>4, NotQueued, WaitingKept DEF PCs
  <2>2. QED
    BY <2>1, <1>3 DEF M!Leave
<1>5. CASE cond[t] # NULL
  <2> DEFINE c == cond[t]
             q == cond_waiters[c]
  <2>1. c \in Cond /\ q \in Seq(Thread)
    BY <1>5 DEF IInv, TypeOK
  <2>2. q # <<>> /\ q[Len(q)] = t
    BY <1>1, <1>5 DEF IInv, LastOK
  <2>3. ASSUME NEW u \in Thread PROVE pc'[u] = IF u = t THEN "down" ELSE pc[u]
    BY <1>1, <1>5 DEF IInv, TypeOK, Goto
  <2>4. waiting[c] = SubSeq(q, 1, Len(q) - 1)
    BY <1>1, <2>1, <2>2, Zenon DEF waiting, Waiting
  <2>5. waiting'[c] = q
    <3>1. pc'[t] = "down"
      BY <2>3
    <3>2. QED
      BY <3>1, <1>1, <2>1, <2>2 DEF waiting, Waiting
  <2>6. q = Append(SubSeq(q, 1, Len(q) - 1), t)
    <3> HIDE DEF q
    <3>1. Len(q) \in Nat \ {0}
      BY <2>1, <2>2
    <3>2. QED
      BY <2>1, <2>2, <3>1
  <2>7. ASSUME NEW d \in Cond, d # c PROVE waiting'[d] = waiting[d]
    <3>1. t \notin Range(cond_waiters[d])
      BY <2>7 DEF IInv, WaiterAlive
    <3>2. cond_waiters[d] \in Seq(Thread) /\ cond_waiters'[d] = cond_waiters[d]
      BY <1>1 DEF IInv, TypeOK
    <3>3. ASSUME cond_waiters[d] # <<>>
          PROVE  LET l == cond_waiters[d][Len(cond_waiters[d])] IN l \in Thread /\ l # t
      BY <3>1, <3>2, <3>3 DEF Range
    <3>4. QED
      BY <2>3, <3>2, <3>3 DEF waiting, Waiting
  <2>8. waiting' = [waiting EXCEPT ![c] = Append(@, t)]
    <3>1. waiting = [d \in Cond |-> waiting[d]] /\ waiting' = [d \in Cond |-> waiting'[d]]
      BY DEF waiting
    <3> HIDE DEF c, q
    <3>2. QED
      BY <3>1, <2>1, <2>4, <2>5, <2>6, <2>7
  <2>9. M!Wait(t, c)
    BY <1>3, <2>8 DEF M!Wait
  <2>10. QED
    BY <2>1, <2>9
<1>6. QED
  BY <1>4, <1>5

(* Taking the first waiter off the list is the moment of the signal. *)
LEMMA PopRefines ==
  ASSUME IInv, IInv', NEW t \in Thread, NEW c \in Cond, pc[t] \in {"in", "broadcast"}, PopWaiter(t, c)
  PROVE  M!Signal(t, c)
<1>1. /\ cond_waiters[c] # <<>> /\ Goto(t, "signal")
      /\ cond_waiters' = [cond_waiters EXCEPT ![c] = Tail(cond_waiters[c])]
  BY DEF PopWaiter
<1>2. Owners = {t} /\ Owners' = {t}
  BY <1>1, OnlyOwner, OwnersMove DEF IInv, PCs, Owning, Inside
<1>3. owner = t /\ owner' = t
  BY <1>2 DEF owner
<1>4. ASSUME NEW d \in Cond PROVE waiting[d] = cond_waiters[d]
  BY QueuedAreDown, WaitingRead
<1>5. ASSUME NEW d \in Cond PROVE waiting'[d] = cond_waiters'[d]
  <2>1. pc'[t] = "signal"
    BY <1>1 DEF IInv, TypeOK, Goto
  <2>2. ASSUME NEW u \in Range(cond_waiters'[d]) PROVE pc'[u] = "down"
    <3>1. u \in Thread /\ pc'[u] \in {"wait", "release", "down"}
      BY EmptyIffNoElement DEF IInv, TypeOK, WaiterAlive
    <3>2. \A v \in Thread : pc'[v] \in Owning => v = t
      BY <1>2 DEF Owners, Owning
    <3>3. QED
      BY <2>1, <3>1, <3>2 DEF Owning, Inside
  <2>3. ASSUME cond_waiters'[d] # <<>>
        PROVE  pc'[cond_waiters'[d][Len(cond_waiters'[d])]] = "down"
    <3>1. cond_waiters'[d] \in Seq(Thread)
      BY DEF IInv, TypeOK
    <3>2. Len(cond_waiters'[d]) \in DOMAIN cond_waiters'[d]
      BY <2>3, <3>1
    <3>3. QED
      BY <2>2, <3>2 DEF Range
  <2>4. QED
    BY <2>3 DEF waiting, Waiting
<1>6. cond_waiters \in [Cond -> Seq(Thread)] /\ waiting = [d \in Cond |-> waiting[d]]
      /\ waiting' = [d \in Cond |-> waiting'[d]]
  BY DEF IInv, TypeOK, waiting
<1>7. waiting' = [waiting EXCEPT ![c] = Tail(@)]
  BY <1>1, <1>4, <1>5, <1>6
<1>8. QED
  BY <1>1, <1>3, <1>4, <1>7 DEF M!Signal

(* Queueing the semaphore_elem is not yet waiting: the thread still owns   *)
(* the lock.                                                               *)
LEMMA CondWaitRefines ==
  ASSUME IInv, NEW t \in Thread, NEW c \in Cond, CondWait(t, c)
  PROVE  UNCHANGED <<owner, waiting>>
<1>1. /\ pc[t] = "in" /\ Goto(t, "wait")
      /\ cond_waiters' = [cond_waiters EXCEPT ![c] = Append(cond_waiters[c], t)]
  BY DEF CondWait
<1>2. Owners = {t} /\ Owners' = {t}
  BY <1>1, OnlyOwner, OwnersMove DEF IInv, PCs, Owning, Inside
<1>3. owner' = owner
  BY <1>2 DEF owner
<1>4. ASSUME NEW u \in Thread PROVE pc'[u] = IF u = t THEN "wait" ELSE pc[u]
  BY <1>1 DEF IInv, TypeOK, Goto
<1>5. ASSUME NEW d \in Cond PROVE waiting[d] = cond_waiters[d] /\ cond_waiters[d] \in Seq(Thread)
  BY <1>1, QueuedAreDown, WaitingRead DEF IInv, TypeOK
<1>6. ASSUME NEW d \in Cond, d # c PROVE waiting'[d] = cond_waiters[d]
  <2>1. cond_waiters'[d] = cond_waiters[d]
    BY <1>1, <1>6, Zenon DEF IInv, TypeOK
  <2>2. ASSUME cond_waiters[d] # <<>> PROVE pc'[cond_waiters[d][Len(cond_waiters[d])]] = "down"
    <3>1. Len(cond_waiters[d]) \in DOMAIN cond_waiters[d]
      BY <2>2, <1>5
    <3>2. \A u \in Range(cond_waiters[d]) : u \in Thread /\ u # t /\ pc[u] = "down"
      BY <1>1, QueuedAreDown
    <3>3. QED
      BY <3>1, <3>2, <1>4 DEF Range
  <2>3. QED
    BY <2>1, <2>2 DEF waiting, Waiting
<1>7. waiting'[c] = cond_waiters[c]
  <2> DEFINE q == cond_waiters[c]
             a == Append(q, t)
  <2>1. q \in Seq(Thread) /\ cond_waiters'[c] = a
    BY <1>1 DEF IInv, TypeOK
  <2>2. a # <<>> /\ Len(a) = Len(q) + 1 /\ a[Len(a)] = t /\ SubSeq(a, 1, Len(a) - 1) = q
    BY <2>1
  <2>3. pc'[t] # "down"
    BY <1>4
  <2> HIDE DEF q, a
  <2>4. waiting'[c] = SubSeq(a, 1, Len(a) - 1)
    BY <2>1, <2>2, <2>3 DEF waiting, Waiting
  <2>5. QED
    BY <2>2, <2>4 DEF q
<1>8. waiting' = waiting
  <2>1. waiting = [d \in Cond |-> waiting[d]] /\ waiting' = [d \in Cond |-> waiting'[d]]
    BY DEF waiting
  <2>2. \A d \in Cond : waiting'[d] = waiting[d]
    BY <1>5, <1>6, <1>7
  <2>3. QED
    BY <2>1, <2>2
<1>9. QED
  BY <1>3, <1>8

(* Every step of synch.c is a step of the monitor or leaves it unchanged. *)
LEMMA NextRefines ==
  ASSUME IInv, IInv', [Next]_vars
  PROVE  [M!Next]_<<owner, waiting>>
<1>1. ASSUME NEW t \in Thread, Call(t) \/ LockRelease(t) \/ Continue(t)
      PROVE  M!Next \/ UNCHANGED <<owner, waiting>>
  <2>1. CASE LockAcquire(t) \/ LockAcquireTurn(t) \/ LockTryAcquire(t)
    BY <2>1, AcquireRefines DEF M!Next
  <2>2. CASE SetHolder(t) \/ LockRelease(t)
    <3>1. /\ pc[t] \in {"got", "in", "wait"} /\ UNCHANGED cond_waiters
          /\ Goto(t, "in") \/ Goto(t, "release")
      BY <2>2 DEF SetHolder, LockRelease, condv
    <3>2. QED
      BY <3>1, StutterStep DEF PCs, Owning, Inside
  <2>3. CASE ReleaseUp(t)
    BY <2>3, ReleaseRefines DEF M!Next
  <2>4. CASE \E c \in Cond : CondWait(t, c)
    BY <2>4, CondWaitRefines, Zenon
  <2>5. CASE WaiterDown(t)
    <3>1. pc[t] = "down" /\ UNCHANGED cond_waiters
      BY <2>5 DEF WaiterDown
    <3>2. CASE wvalue[t] > 0 /\ Goto(t, "acquire")
      <4>1. wvalue[t] # 0
        BY <3>2
      <4>2. QED
        BY <3>1, <3>2, <4>1, NotQueued, StutterStep DEF PCs, Owning, Inside
    <3>3. CASE UNCHANGED pc
      BY <3>1, <3>3 DEF owner, Owners, waiting, Waiting
    <3>4. QED
      BY <2>5, <3>2, <3>3 DEF WaiterDown
  <2>6. CASE SignalUp(t)
    <3>1. pc[t] = "signal" /\ UNCHANGED cond_waiters /\ (Goto(t, "in") \/ Goto(t, "broadcast"))
      BY <2>6 DEF SignalUp
    <3>2. QED
      BY <3>1, StutterStep DEF PCs, Owning, Inside
  <2>7. CASE \E c \in Cond : CondSignal(t, c)
    BY <2>7, PopRefines DEF CondSignal, M!Next
  <2>8. CASE \E c \in Cond : CondBroadcast(t, c)
    BY <2>8, StutterStep DEF CondBroadcast, PCs, Owning, Inside
  <2>9. CASE BroadcastTurn(t)
    <3>1. pc[t] = "broadcast" /\ cond[t] \in Cond
      BY <2>9 DEF BroadcastTurn, IInv, CondOK
    <3>2. CASE PopWaiter(t, cond[t])
      BY <3>1, <3>2, PopRefines DEF M!Next
    <3>3. CASE Goto(t, "in") /\ UNCHANGED cond_waiters
      BY <3>1, <3>3, StutterStep DEF PCs, Owning, Inside
    <3>4. QED
      BY <2>9, <3>2, <3>3 DEF BroadcastTurn
  <2>10. QED
    BY <1>1, <2>1, <2>2, <2>3, <2>4, <2>5, <2>6, <2>7, <2>8, <2>9 DEF Call, Continue
<1>2. CASE UNCHANGED vars
  BY <1>2 DEF vars, condv, owner, Owners, waiting, Waiting
<1>3. QED
  BY <1>1, <1>2 DEF Next

(* synch.c implements the monitor: cond_wait releases the lock and starts  *)
(* to wait as if in one step, whatever runs in between, and signals wake   *)
(* in the order of the waits.                                              *)
THEOREM SynchImplementsMonitor == Spec => ImplementsMonitor
<1>1. Init => M!Init
  BY DEF Init, M!Init, owner, Owners, Inside, waiting, Waiting
<1>2. QED
  BY <1>1, SynchInvariant, NextRefines, PTL DEF Spec, ImplementsMonitor, M!Spec
============================================================================
