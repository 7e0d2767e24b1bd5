------------------------------ MODULE MCSynch ------------------------------
(* Synch for TLC, with liveness. *)
EXTENDS Synch

(* Every runnable thread is scheduled (Threads!EveryThreadRuns), and      *)
(* whoever is inside leaves.                                               *)
FairSpec ==
  Spec /\ \A t \in Thread : WF_vars(LockRelease(t)) /\ WF_vars(Continue(t))

(* From some point on no thread makes a new call: one that enters and      *)
(* leaves for ever can overtake another for ever.                          *)
CallsEnd == <>[][\A t \in Thread : ~Call(t)]_vars

(* Whoever has blocked in lock_acquire gets the lock, as long as those who *)
(* have it release it (synch.c:221-237, 265-279).                          *)
AcquireReturns == CallsEnd => \A t \in Thread : pc[t] = "acquire" ~> pc[t] = "in"

(* Whoever is signalled in cond_wait returns from it with the lock, even   *)
(* when the signal comes before its sema_down (synch.c:341-344, 381-383).  *)
SignalledReturns ==
  CallsEnd => \A t \in Thread :
    (\E u \in Thread : pc[u] = "signal" /\ target[u] = t) ~> pc[t] = "in"

(* Both: no thread stays in lock_acquire or, once signalled, in cond_wait. *)
CallsReturn == AcquireReturns /\ SignalledReturns
============================================================================
