------------------------------ MODULE Monitor ------------------------------
(***************************************************************************)
(* What threads/synch.c promises the users of a lock and its condition     *)
(* variables: at most one thread is inside; cond_wait leaves and starts to *)
(* wait in one step; cond_signal, from inside, lets the thread that has    *)
(* waited longest compete for the lock again; nobody stops waiting         *)
(* otherwise.                                                              *)
(***************************************************************************)
EXTENDS Lists

CONSTANTS Thread, Cond, NULL

VARIABLES owner,    \* the thread inside, or NULL
          waiting   \* the threads waiting for each condition, oldest first

Waiters == UNION {Range(waiting[c]) : c \in Cond}

Init == owner = NULL /\ waiting = [c \in Cond |-> <<>>]

Enter(t) == /\ owner = NULL
            /\ t \notin Waiters
            /\ owner' = t
            /\ UNCHANGED waiting

Leave(t) == /\ owner = t
            /\ owner' = NULL
            /\ UNCHANGED waiting

Wait(t, c) == /\ owner = t
              /\ owner' = NULL
              /\ waiting' = [waiting EXCEPT ![c] = Append(@, t)]

Signal(t, c) == /\ owner = t
                /\ waiting[c] # <<>>
                /\ waiting' = [waiting EXCEPT ![c] = Tail(@)]
                /\ UNCHANGED owner

Next == \E t \in Thread : \/ Enter(t) \/ Leave(t)
                          \/ \E c \in Cond : Wait(t, c) \/ Signal(t, c)

Spec == Init /\ [][Next]_<<owner, waiting>>
============================================================================
