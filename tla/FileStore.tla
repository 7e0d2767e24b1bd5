----------------------------- MODULE FileStore -----------------------------
(***************************************************************************)
(* What the file system promises of the contents of files: a file is a     *)
(* sequence of bytes that reads as it was last written, with zeros where   *)
(* nothing was written; it stays, restarts of the system included, until   *)
(* it is removed and no one has it open.                                   *)
(***************************************************************************)
EXTENDS Naturals, Sequences

CONSTANTS Id, Handle, Byte,
          Size, Offset,    \* the sizes and positions users ask for
          None

VARIABLES file,    \* the bytes of each file, or None: no such file
          fd,      \* what is open: a file or None
          buf      \* what the last step read, by position

vars == <<file, fd, buf>>

Init == file = [f \in Id |-> None] /\ fd = [h \in Handle |-> None] /\ buf = <<>>

Quiet == buf' = <<>>

Create(f, n) == /\ file[f] = None
                /\ file' = [file EXCEPT ![f] = [i \in 1..n |-> 0]]
                /\ Quiet /\ UNCHANGED fd

Open(h, f) == /\ fd[h] = None /\ file[f] # None
              /\ fd' = [fd EXCEPT ![h] = f]
              /\ Quiet /\ UNCHANGED file

Users(f) == {h \in Handle : fd[h] = f}

(* A file that is removed is deleted when it is not open any more. *)
Close(h) == /\ fd[h] # None
            /\ fd' = [fd EXCEPT ![h] = None]
            /\ \/ UNCHANGED file
               \/ Users(fd[h]) = {h} /\ file' = [file EXCEPT ![fd[h]] = None]
            /\ Quiet

Remove(f) == Users(f) = {} /\ file' = [file EXCEPT ![f] = None] /\ Quiet /\ UNCHANGED fd

(* The bytes b with n bytes v written at offset o. *)
Overwrite(b, o, n, v) ==
  [i \in 1..(IF o + n > Len(b) THEN o + n ELSE Len(b)) |->
     IF i > o /\ i <= o + n THEN v ELSE IF i <= Len(b) THEN b[i] ELSE 0]

Write(h, o, n, v) ==
  /\ fd[h] # None
  /\ Quiet /\ UNCHANGED fd
  /\ file' = [file EXCEPT ![fd[h]] = Overwrite(@, o, n, v)]

Read(h, o, n) ==
  /\ fd[h] # None
  /\ UNCHANGED <<fd, file>>
  /\ LET f == file[fd[h]]
     IN buf' = [i \in o..(IF o + n < Len(f) THEN o + n ELSE Len(f)) - 1 |-> f[i + 1]]

Shutdown == fd' = [h \in Handle |-> None] /\ Quiet /\ UNCHANGED file

Other == Quiet /\ UNCHANGED <<file, fd>>

Next == \/ Other \/ Shutdown
        \/ \E f \in Id : \/ Remove(f)
                         \/ \E n \in Size : Create(f, n)
                         \/ \E h \in Handle : Open(h, f)
        \/ \E h \in Handle : \/ Close(h)
                             \/ \E o \in Offset, n \in Size :
                                  \/ Read(h, o, n)
                                  \/ \E v \in Byte : Write(h, o, n, v)

Spec == Init /\ [][Next]_vars
============================================================================
