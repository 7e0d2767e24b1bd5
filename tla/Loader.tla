------------------------------- MODULE Loader -------------------------------
(***************************************************************************)
(* Loading a program: the part of load (process.c) that computes, namely   *)
(* process_parse with strtok_r, validate_segment, load_segment and         *)
(* setup_stack.  One process; its locks and the frames it may have to wait *)
(* for are in Process and VirtualMemory.                                   *)
(*                                                                         *)
(* Addresses are BITS wide.  A pointer or an int takes WORD bytes, of      *)
(* which the first stands for it.  A fresh frame holds anything: JUNK.     *)
(***************************************************************************)
EXTENDS Integers, Sequences

CONSTANTS SPACE,            \* DELIM
          MAX_ARG_COUNT,    \* 32
          PGSIZE, PHYS_BASE, BITS, WORD,
          FileLength,       \* the byte at offset i of the program is i + 1
          JUNK, NULL

VARIABLES stage,
          string, save_ptr,   \* the command line as strtok_r leaves it, its position
          argv,               \* where the arguments begin in it
          headers,            \* the program headers still to be read
          segment,            \* the rest of the segment that is loaded
          memory, writable,   \* the bytes of the process (NULL: not mapped), pages it may write
          esp,
          line, loaded        \* history: the command line, the segments loaded

parsed == <<string, save_ptr, argv>>
space == <<memory, writable>>
vars == <<stage, parsed, headers, segment, space, esp, line, loaded>>

NUL == 0
User == 0..PHYS_BASE - 1
Page(a) == a \div PGSIZE
Plus(a, b) == (a + b) % 2^BITS

(* A command line s and a program with headers hs. *)
Start(s, hs) ==
  /\ stage = "parse"
  /\ string = Append(s, NUL) /\ save_ptr = 1 /\ argv = <<>>
  /\ headers = hs /\ segment = NULL
  /\ memory = [a \in User |-> NULL] /\ writable = {}
  /\ esp = NULL
  /\ line = s /\ loaded = <<>>

----------------------------------------------------------------------------
(* strtok_r: the token at or after position s, which ends at the next      *)
(* delimiter.                                                              *)
First(s, P(_)) == CHOOSE i \in s..Len(string) : P(string[i]) /\ \A j \in s..i - 1 : ~P(string[j])
Token(s) == First(s, LAMBDA ch : ch # SPACE)
EndOf(token) == First(token, LAMBDA ch : ch \in {SPACE, NUL})

Cut(token) == [string EXCEPT ![EndOf(token)] = NUL]

(* One turn of the loop of process_parse, which writes argv[argc].  Beyond *)
(* the array it would write what follows in struct process.                *)
process_parse ==
  /\ stage = "parse"
  /\ LET token == Token(save_ptr) IN
     IF Len(argv) >= MAX_ARG_COUNT
     THEN stage' = "overrun" /\ UNCHANGED parsed
     ELSE IF string[token] = NUL
     THEN stage' = "open" /\ save_ptr' = token /\ UNCHANGED <<string, argv>>
     ELSE /\ argv' = Append(argv, token)
          /\ string' = Cut(token)
          /\ save_ptr' = IF string[EndOf(token)] = NUL THEN EndOf(token) ELSE EndOf(token) + 1
          /\ UNCHANGED stage
  /\ UNCHANGED <<headers, segment, space, esp, line, loaded>>

(* The file is opened by the command line up to its first NUL: with spaces *)
(* before the first word there is no such file.  Its header may be wrong.  *)
Open ==
  /\ stage = "open"
  /\ stage' \in (IF string[1] \in {SPACE, NUL} THEN {"failed"} ELSE {"failed", "headers"})
  /\ UNCHANGED <<parsed, headers, segment, space, esp, line, loaded>>

----------------------------------------------------------------------------
(* validate_segment.  Sums are of 32 bits. *)
InUserSpace(h) == h.vaddr < PHYS_BASE /\ Plus(h.vaddr, h.memsz) < PHYS_BASE
NoWrapAround(h) == Plus(h.vaddr, h.memsz) >= h.vaddr
validate_segment(h) ==
  /\ h.offset % PGSIZE = h.vaddr % PGSIZE
  /\ h.offset <= FileLength
  /\ h.memsz >= h.filesz /\ h.memsz # 0
  /\ InUserSpace(h) /\ NoWrapAround(h)
  /\ h.vaddr >= PGSIZE

(* ROUND_UP to pages, and what load passes to load_segment *)
Whole(n) == ((n + PGSIZE - 1) \div PGSIZE) * PGSIZE
Segment(h) ==
  LET offset == h.vaddr % PGSIZE
      read == IF h.filesz > 0 THEN offset + h.filesz ELSE 0
  IN [ofs |-> h.offset - (h.offset % PGSIZE), upage |-> h.vaddr - offset,
      read_bytes |-> read, zero_bytes |-> Whole(offset + h.memsz) - read, writable |-> h.writable]

(* The loop of load over the program headers.  The file may end before the *)
(* next one.                                                               *)
ReadHeader ==
  /\ stage = "headers"
  /\ IF headers = <<>>
     THEN stage' = "stack" /\ UNCHANGED <<headers, segment, loaded>>
     ELSE \/ stage' = "failed" /\ UNCHANGED <<headers, segment, loaded>>
          \/ LET h == Head(headers) IN
             /\ headers' = Tail(headers)
             /\ \/ h.type = "ignored" /\ UNCHANGED <<stage, segment, loaded>>
                \/ /\ h.type = "refused" \/ (h.type = "load" /\ ~validate_segment(h))
                   /\ stage' = "failed" /\ UNCHANGED <<segment, loaded>>
                \/ /\ h.type = "load" /\ validate_segment(h)
                   /\ stage' = "segment" /\ segment' = Segment(h)
                   /\ loaded' = Append(loaded, h)
  /\ UNCHANGED <<parsed, space, esp, line>>

(* One page of load_segment: a frame is allocated and mapped, whatever was *)
(* mapped there before, read into and filled with zeros.  A short read     *)
(* fails; a page that is not the user's panics in pagedir_set_page.        *)
Lesser(a, b) == IF a < b THEN a ELSE b
NotZeroed(read, i) == JUNK
Filling(read, i) == 0
LoadPage ==
  /\ stage = "segment"
  /\ LET s == segment
         read == Lesser(s.read_bytes, PGSIZE)
         here == s.upage..s.upage + PGSIZE - 1
         Content(i) == IF i < read THEN s.ofs + i + 1 ELSE Filling(read, i)
     IN IF s.read_bytes = 0 /\ s.zero_bytes = 0
        THEN stage' = "headers" /\ segment' = NULL /\ UNCHANGED space
        ELSE IF ~(here \subseteq User)
        THEN stage' = "panic" /\ UNCHANGED <<segment, space>>
        ELSE /\ writable' = IF s.writable THEN writable \cup {Page(s.upage)} ELSE writable \ {Page(s.upage)}
             /\ IF s.ofs + read > FileLength /\ read > 0
                THEN /\ stage' = "failed" /\ UNCHANGED segment
                     /\ memory' = [a \in User |-> IF a \in here THEN JUNK ELSE memory[a]]
                ELSE /\ memory' = [a \in User |-> IF a \in here THEN Content(a - s.upage) ELSE memory[a]]
                     /\ segment' = [s EXCEPT !.ofs = @ + read, !.upage = @ + PGSIZE,
                                             !.read_bytes = @ - read, !.zero_bytes = @ - (PGSIZE - read)]
                     /\ UNCHANGED stage
  /\ UNCHANGED <<parsed, headers, esp, line, loaded>>

----------------------------------------------------------------------------
(* setup_stack.  A state of it: the stack pointer, the memory, and where   *)
(* the arguments were put.  A write to a page that may not be written      *)
(* faults, and the process exits: the stack cannot grow before it runs.    *)
Store(st, a, byte) ==
  IF st.ok /\ a \in User /\ st.memory[a] # NULL /\ Page(a) \in st.pages
  THEN [st EXCEPT !.memory[a] = byte] ELSE [st EXCEPT !.ok = FALSE]

(* strlcpy of the argument that begins at i, below the stack pointer *)
StringLength(i) == First(i, LAMBDA ch : ch = NUL) - i
RECURSIVE StoreString(_, _, _, _)
StoreString(st, a, i, n) ==
  IF n < 0 THEN st ELSE StoreString(Store(st, a + n, string[i + n]), a, i, n - 1)
PushString(st, i) ==
  LET a == st.esp - (StringLength(i) + 1)
  IN [StoreString(st, a, i, StringLength(i)) EXCEPT !.esp = a, !.ptr = <<a>> \o @]

RECURSIVE PushStrings(_, _)
PushStrings(st, k) == IF k = 0 THEN st ELSE PushStrings(PushString(st, argv[k]), k - 1)

Push(st, w) == [Store(st, st.esp - WORD, w) EXCEPT !.esp = @ - WORD]
RECURSIVE PushPointers(_, _)
PushPointers(st, k) == IF k = 0 THEN st ELSE PushPointers(Push(st, st.ptr[k]), k - 1)

setup_stack ==
  /\ stage = "stack"
  /\ LET top == {PHYS_BASE - i : i \in 1..PGSIZE}
         argc == Len(argv)
         fresh == [ok |-> TRUE, esp |-> PHYS_BASE, ptr |-> <<>>,
                   memory |-> [a \in User |-> IF a \in top THEN JUNK ELSE memory[a]],
                   pages |-> writable \cup {Page(PHYS_BASE - 1)}]
         strings == PushStrings(fresh, argc)
         aligned == [Store(strings, strings.esp - 1, 0) EXCEPT !.esp = @ - 1]
         pointers == PushPointers(Push(aligned, 0), argc)
         end == Push(Push(Push(pointers, pointers.esp), argc), 0)
     IN /\ stage' = IF end.ok THEN "running" ELSE "exited"
        /\ esp' = end.esp /\ memory' = end.memory /\ writable' = end.pages
  /\ UNCHANGED <<parsed, headers, segment, line, loaded>>

Next == process_parse \/ Open \/ ReadHeader \/ LoadPage \/ setup_stack

----------------------------------------------------------------------------
Ended == stage \in {"running", "exited", "failed", "overrun", "panic"}

(* What each variable may be; an argument begins inside the command line.  *)
TypeOK ==
  /\ stage \in {"parse", "open", "headers", "segment", "stack"} \/ Ended
  /\ save_ptr \in DOMAIN string /\ \A k \in DOMAIN argv : argv[k] \in DOMAIN line
  /\ Len(argv) <= MAX_ARG_COUNT
  /\ writable \subseteq {Page(a) : a \in User}
  /\ segment # NULL => segment.read_bytes >= 0 /\ segment.zero_bytes >= 0

(* The words of the command line, by definition: what is between spaces.   *)
WordStarts == {i \in DOMAIN line : line[i] # SPACE /\ (i > 1 => line[i - 1] = SPACE)}
WordAt(i) ==
  LET last == CHOOSE j \in i..Len(line) :
                (\A k \in i..j : line[k] # SPACE) /\ (j < Len(line) => line[j + 1] = SPACE)
  IN SubSeq(line, i, last)

(* The string a program finds at address a *)
StringAt(a) ==
  LET last == CHOOSE j \in a..PHYS_BASE - 1 : memory[j] = NUL /\ \A k \in a..j - 1 : memory[k] # NUL
  IN [i \in 1..last - a |-> memory[a + i - 1]]

(* process.c process_parse and setup_stack: a program that runs finds argc  *)
(* and argv above its stack pointer as C wants them: the words of the       *)
(* command line in order, however they are spaced, and then NULL.           *)
ArgumentsRight ==
  stage = "running" =>
    LET argc == memory[esp + WORD]
        vector == memory[esp + 2 * WORD]
    IN /\ argc = Len(argv) /\ memory[vector + argc * WORD] = NUL
       /\ {StringAt(memory[vector + k * WORD]) : k \in 0..argc - 1} = {WordAt(i) : i \in WordStarts}
       /\ \A k \in 0..argc - 1 :
            \E i \in WordStarts : /\ k = Len(SelectSeq(argv, LAMBDA j : j < i))
                                  /\ StringAt(memory[vector + k * WORD]) = WordAt(i)

(* process.c load_segment: each byte of a segment is the file's or zero, as *)
(* its header says, in every page, whatever the offsets in the pages; but a *)
(* later segment, or the stack, takes the whole of a page they share.       *)
Pages(h) == {Page(a) : a \in h.vaddr..h.vaddr + h.memsz - 1}
Taken(k) == UNION {Pages(loaded[j]) : j \in k + 1..Len(loaded)} \cup {Page(PHYS_BASE - 1)}
SegmentsRight ==
  stage = "running" =>
    \A k \in DOMAIN loaded :
      LET h == loaded[k] IN
      \A i \in 0..h.memsz - 1 :
        Page(h.vaddr + i) \notin Taken(k) =>
          memory[h.vaddr + i] = (IF i < h.filesz THEN h.offset + i + 1 ELSE 0)

(* process.c validate_segment: no header makes the loader map page 0 or a   *)
(* page of the kernel, which would fail an assertion of pagedir_set_page.   *)
UserPagesOnly == stage # "panic" /\ \A a \in 0..PGSIZE - 1 : memory[a] = NULL
=============================================================================
