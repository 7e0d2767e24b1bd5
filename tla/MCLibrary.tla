----------------------------- MODULE MCLibrary -----------------------------
(* Containers with five elements, two of them equal; or the arrays and     *)
(* texts of Stdlib, the memories of Strings, the divisors of Arithmetic, a *)
(* conversion of Printf or a load of Loader.  They share nothing: a        *)
(* behaviour is one of them, while the others rest.                        *)
EXTENDS Containers

CONSTANTS e1, e2, e3, e4, e5, none,
          (* of Stdlib *)
          Item, Char, SPACE, PLUS, MINUS, BITS, MaxArray, MaxText,
          (* of Strings and Arithmetic *)
          Byte, MaxMemory, WordBits,
          (* of Printf *)
          POUND, GROUP, DOT, STAR, H, J, L, T, Z, COMMA, X, ByteBits, BUF_SIZE,
          (* of Loader *)
          MAX_ARG_COUNT, PGSIZE, PHYS_BASE, WORD, FileLength, JUNK, MaxLine

MCElem == {e1, e2, e3, e4, e5}
MCKey == [e \in MCElem |-> CASE e = e1 -> 0 [] e = e4 -> 2 [] e = e5 -> 3 [] OTHER -> 1]

VARIABLES array, text, bytes, divisor, format,
          stage, string, save_ptr, argv, headers, segment, memory, writable, esp, line, loaded

Lib == INSTANCE Stdlib
Memory == INSTANCE Strings
Division == INSTANCE Arithmetic
Printed == INSTANCE Printf
Program == INSTANCE Loader

(* One header with sizes and places around the ends of pages, of the file, *)
(* of user space and of the address space; or a few of them together.      *)
Header(type, v, o, m, n, w) ==
  [type |-> type, vaddr |-> v, offset |-> o, memsz |-> m, filesz |-> n, writable |-> w]
Edges(x) == {x - 1, x, x + 1}
OneHeader ==
  {<<Header("load", v, o, m, n, FALSE)>> :
     v \in {0, 5} \cup Edges(PGSIZE) \cup Edges(2 * PGSIZE) \cup Edges(PHYS_BASE) \cup {2^BITS - 1},
     o \in {0, 1, 5, PGSIZE - 1, PGSIZE, PGSIZE + 5},
     m \in {0, 1, 5} \cup Edges(PGSIZE) \cup {PHYS_BASE, 2^BITS - 1},
     n \in {0, 1, 5, FileLength, FileLength + 1}}
SomeHeaders ==
  LET text_segment == Header("load", PGSIZE, 0, 5, 5, FALSE)
      data_segment == Header("load", 2 * PGSIZE + 5, 5, 7, 3, TRUE)
      same_page == Header("load", PGSIZE + 5, 5, 2, 1, TRUE)
      note == Header("ignored", 0, 0, 0, 0, FALSE)
      interp == Header("refused", 0, 0, 0, 0, FALSE)
  IN {<<text_segment, data_segment>>, <<note, text_segment, same_page>>, <<data_segment, interp>>, <<note>>}
Lines == UNION {[1..n -> {SPACE, e1, e2}] : n \in 0..MaxLine}

(* Conversion specifications: any flags, with a width, a precision, a type *)
Flags == LET order == <<MINUS, PLUS, SPACE, POUND, GROUP, 0>>
         IN {[i \in 1..Cardinality(S) |-> order[CHOOSE k \in S : Cardinality({j \in S : j < k}) = i - 1]] :
               S \in SUBSET (1..6)}
Formats ==
  {flags \o width \o precision \o type :
     flags \in Flags, width \in {<<>>, <<7>>, <<1, 1>>, <<STAR>>},
     precision \in {<<>>, <<DOT>>, <<DOT, 3>>, <<DOT, 1, 1>>, <<DOT, STAR>>},
     type \in {<<>>, <<H, H>>, <<J>>}}
  \cup {<<H>>, <<L>>, <<L, L>>, <<T>>, <<Z>>}

NoProgram == stage = "none" /\ string = none /\ save_ptr = 0 /\ argv = none /\ headers = none
             /\ segment = none /\ memory = none /\ writable = none /\ esp = none /\ line = none
             /\ loaded = none
MCInit ==
  /\ Init /\ Lib!Init /\ Memory!Init /\ Division!Init /\ format = none
  /\ \/ NoProgram
     \/ \E s \in Lines : Program!Start(s, <<>>)
     \/ \E hs \in OneHeader \cup SomeHeaders : Program!Start(<<e1>>, hs)

library == <<array, text>>
program == <<stage, string, save_ptr, argv, headers, segment, memory, writable, esp, line, loaded>>

(* At most one of them has begun. *)
Parts == {"library", "memory", "division", "printed", "program", "containers"}
Rests(part) ==
  CASE part = "library" -> Lib!Init
    [] part = "memory" -> Memory!Init
    [] part = "division" -> Division!Init
    [] part = "printed" -> format = none
    [] part = "program" -> stage = "none"
    [] part = "containers" -> Init
Turn(part) == \A other \in Parts \ {part} : Rests(other)

(* A load that has ended, what has the greatest length, a conversion done *)
Over == \/ Program!Ended \/ format # none \/ divisor = 2^(2 * WordBits) - 1
        \/ Len(array) = MaxArray \/ Len(text) = MaxText \/ Len(bytes) = MaxMemory
MCNext ==
  \/ Turn("containers") /\ Next /\ UNCHANGED <<library, bytes, divisor, format, program>>
  \/ Turn("library") /\ (Lib!MoreArray \/ Lib!MoreText) /\ UNCHANGED <<vars, bytes, divisor, format, program>>
  \/ Turn("memory") /\ Memory!MoreBytes /\ UNCHANGED <<vars, library, divisor, format, program>>
  \/ Turn("division") /\ Division!MoreDivisor /\ UNCHANGED <<vars, library, bytes, format, program>>
  \/ /\ Turn("printed") /\ format = none
     /\ \E s \in Formats : Printed!Convert(s)
     /\ UNCHANGED <<vars, library, bytes, divisor, program>>
  \/ Turn("program") /\ stage # "none" /\ Program!Next /\ UNCHANGED <<vars, library, bytes, divisor, format>>
  \/ Over /\ UNCHANGED <<vars, library, bytes, divisor, format, program>>
MCSpec == MCInit /\ [][MCNext]_<<vars, library, bytes, divisor, format, program>>
----------------------------------------------------------------------------
(* lib/stdlib.c sort: what it leaves is in order, with the same elements.  *)
SortRight == Turn("library") => Lib!SortRight
(* lib/stdlib.c binary_search finds what is there, and nothing else.       *)
SearchRight == Turn("library") => Lib!SearchRight
(* lib/stdlib.c atoi reads every int, the smallest included.               *)
AtoiRight == Turn("library") => Lib!AtoiRight

(* lib/string.c memmove and memset: the block is right, the rest as it was. *)
BlocksRight == Turn("memory") => Memory!BlocksRight
(* lib/string.c strlcpy and strlcat keep to their size and end the string. *)
CopiesRight == Turn("memory") => Memory!CopiesRight
(* lib/string.c strcmp, strstr, strspn and strcspn compare and find.       *)
StringsRight == Turn("memory") => Memory!StringsRight
(* lib/arithmetic.c: quotients and remainders are right, nothing traps.    *)
DivisionRight == Turn("division") => Division!DivisionRight
(* lib/stdio.c: an integer conversion prints the value, as it is to.       *)
PrintedRight == format # none => Printed!PrintedRight
(* lib/stdio.c format_integer stays within its buffer.                     *)
BufferFits == format # none => Printed!BufferFits
(* The functions of lib/ compute what their callers rely on: all of these. *)
FunctionsRight ==
  /\ SortRight /\ SearchRight /\ AtoiRight /\ BlocksRight /\ CopiesRight /\ StringsRight
  /\ DivisionRight /\ PrintedRight /\ BufferFits

(* process.c load: see Loader.  Before a load there is nothing to say.     *)
Loading == stage # "none"
(* process.c load: its variables are what they may be in every stage.      *)
LoadTypeOK == Loading => Program!TypeOK
(* process.c setup_stack: main gets the words of the command line.         *)
ArgumentsRight == Loading => Program!ArgumentsRight
(* process.c load_segment: the bytes of every segment are as its header    *)
(* says.                                                                   *)
SegmentsRight == Loading => Program!SegmentsRight
(* process.c validate_segment: only user pages other than page 0 are       *)
(* mapped, whatever the headers say.                                       *)
UserPagesOnly == Loading => Program!UserPagesOnly
(* process.c load: a process starts with the memory and the stack that its *)
(* executable and its command line ask for: all of these.                  *)
LoadRight == LoadTypeOK /\ ArgumentsRight /\ SegmentsRight /\ UserPagesOnly
=============================================================================
