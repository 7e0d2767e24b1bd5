---------------------------- MODULE SectorStore ----------------------------
(* What the buffer cache promises the file system: a sector in use reads   *)
(* as it was last written, each access in one step.  What is in a sector   *)
(* that was given up is not defined, until it is put to use again.         *)
CONSTANTS Client, Sector, Part, Value, Zero, NULL

VARIABLES content,  \* of each part of each sector
          inuse,    \* the sectors in use
          buffer    \* what the step before this one has read, or NULL

Data == [Part -> Value]

Quiet == buffer' = NULL

Init == /\ content \in [Sector -> Data]
        /\ inuse \subseteq Sector
        /\ buffer = NULL

Read(c, s, o) == /\ s \in inuse
                 /\ buffer' = [client |-> c, sector |-> s, part |-> o, value |-> content[s][o]]
                 /\ UNCHANGED <<content, inuse>>

Write(s, o, v) == /\ s \in inuse
                  /\ content' = [content EXCEPT ![s][o] = v]
                  /\ Quiet /\ UNCHANGED inuse

Use(s) == /\ s \notin inuse
          /\ inuse' = inuse \cup {s}
          /\ content' = [content EXCEPT ![s] = [o \in Part |-> Zero]]
          /\ Quiet

Free(s) == /\ s \in inuse
           /\ inuse' = inuse \ {s}
           /\ \E d \in Data : content' = [content EXCEPT ![s] = d]
           /\ Quiet

Other == Quiet /\ UNCHANGED <<content, inuse>>

Next == Other \/ \E s \in Sector : \/ \E c \in Client, o \in Part : Read(c, s, o)
                                   \/ \E o \in Part, v \in Value : Write(s, o, v)
                                   \/ Use(s) \/ Free(s)

Spec == Init /\ [][Next]_<<content, inuse, buffer>>
============================================================================
