------------------------------ MODULE Strings ------------------------------
(***************************************************************************)
(* lib/string.c: blocks and strings of bytes in a small memory.  A string  *)
(* ends at the first NUL, which there always is.  What the functions       *)
(* return is left out where it is only one of their arguments.             *)
(***************************************************************************)
EXTENDS Integers, Sequences, FiniteSetsExt

CONSTANTS Byte, MaxMemory
VARIABLE bytes      \* what precedes the last NUL

NUL == 0
Null == -1
Bytes == Append(bytes, NUL)
Address == 1..Len(Bytes)

----------------------------------------------------------------------------
(* The loops go up; memmove's goes down when the source is not ahead.      *)
memcpy(m, dst, src, size) ==
  LET copied[i \in 0..size] ==
        IF i = 0 THEN m ELSE [copied[i - 1] EXCEPT ![dst + i - 1] = copied[i - 1][src + i - 1]]
  IN copied[size]

memmove(m, dst, src, size) ==
  LET down[i \in 0..size] ==
        IF i = 0 THEN m ELSE [down[i - 1] EXCEPT ![dst + size - i] = down[i - 1][src + size - i]]
  IN IF dst < src THEN memcpy(m, dst, src, size) ELSE down[size]

memset(m, dst, value, size) == [i \in DOMAIN m |-> IF i \in dst .. dst + size - 1 THEN value ELSE m[i]]

(* The place, from address s, at which a loop over a string stops *)
First(m, s, Stops(_)) == Min({i \in 0 .. Len(m) - s : Stops(m[s + i])})
strlen(m, s) == First(m, s, LAMBDA ch : ch = NUL)

memcmp(m, a, b, size) ==
  LET differ == {i \in 0 .. size - 1 : m[a + i] # m[b + i]}
  IN IF differ = {} THEN 0 ELSE IF m[a + Min(differ)] > m[b + Min(differ)] THEN 1 ELSE -1

(* strcmp stops at the end of a, or where the two differ: at the end of b  *)
(* at the latest.                                                          *)
strcmp(m, a, b) ==
  LET i == Min({i \in 0 .. Len(m) - Max({a, b}) : m[a + i] = NUL \/ m[a + i] # m[b + i]})
  IN IF m[a + i] < m[b + i] THEN -1 ELSE IF m[a + i] > m[b + i] THEN 1 ELSE 0

strchr(m, s, c) ==
  LET i == First(m, s, LAMBDA ch : ch \in {c, NUL})
  IN IF m[s + i] = c THEN s + i ELSE Null
strspn(m, s, skip) == First(m, s, LAMBDA ch : ch = NUL \/ strchr(m, skip, ch) = Null)
strcspn(m, s, stop) == First(m, s, LAMBDA ch : ch = NUL \/ strchr(m, stop, ch) # Null)

(* The last place strstr tries *)
LastPlace(haystack_len, needle_len) == haystack_len - needle_len
(* and the first match *)
strstr(m, haystack, needle) ==
  LET places == {i \in 0 .. LastPlace(strlen(m, haystack), strlen(m, needle)) :
                   memcmp(m, haystack + i, needle, strlen(m, needle)) = 0}
  IN IF places = {} THEN Null ELSE haystack + Min(places)

(* The bytes there is room for besides the NUL *)
Room(size) == size - 1
(* Both write a NUL unless there is no room at all. *)
strlcpy(m, dst, src, size) ==
  LET dst_len == Min({Room(size), strlen(m, src)})
  IN IF size = 0 THEN m ELSE [memcpy(m, dst, src, dst_len) EXCEPT ![dst + dst_len] = NUL]

strlcat(m, dst, src, size) ==
  LET dst_len == strlen(m, dst)
      copy_cnt == Min({Room(size - dst_len), strlen(m, src)})
  IN IF size = 0 \/ dst_len >= size THEN m
     ELSE [memcpy(m, dst + dst_len, src, copy_cnt) EXCEPT ![dst + dst_len + copy_cnt] = NUL]
----------------------------------------------------------------------------
(* Memories of every kind. *)
Init == bytes = <<>>
MoreBytes == Len(bytes) < MaxMemory /\ \E ch \in Byte : bytes' = Append(bytes, ch)

String(m, s) == SubSeq(m, s, s + strlen(m, s) - 1)
Cut(s, n) == SubSeq(s, 1, Min({n, Len(s)}))
Same(m, within) == \A i \in Address \ within : m[i] = Bytes[i]

(* lib/string.c memmove and memset, on any two blocks, leave what was in   *)
(* the source, or the value, in the destination, and the rest as it was.   *)
BlocksRight ==
  \A dst, src \in Address : \A size \in 0 .. Len(Bytes) + 1 - Max({dst, src}) :
    LET m == memmove(Bytes, dst, src, size)
        block == dst .. dst + size - 1
    IN /\ \A i \in block : m[i] = Bytes[src + i - dst]
       /\ Same(m, block) /\ Same(memset(Bytes, dst, NUL, size), block)

(* lib/string.c strlcpy and strlcat, between places apart, leave a string  *)
(* in dst, as much of src or of the two strings as size has room for, and  *)
(* write nothing behind its size bytes.                                    *)
CopiesRight ==
  \A dst, src \in Address : \A size \in 0 .. Len(Bytes) + 1 - dst :
    LET block == dst .. dst + size - 1
        copied == strlcpy(Bytes, dst, src, size)
        joined == strlcat(Bytes, dst, src, size)
        apart == block \cap (src .. src + strlen(Bytes, src)) = {}
    IN apart => /\ Same(copied, block) /\ Same(joined, block)
                /\ size > 0 => String(copied, dst) = Cut(String(Bytes, src), size - 1)
                /\ strlen(Bytes, dst) < size =>
                     String(joined, dst) = Cut(String(Bytes, dst) \o String(Bytes, src), size - 1)

(* The order of words in a dictionary *)
Before(x, y) == \/ Len(x) < Len(y) /\ Cut(y, Len(x)) = x
                \/ \E i \in DOMAIN x \cap DOMAIN y : Cut(x, i - 1) = Cut(y, i - 1) /\ x[i] < y[i]

(* lib/string.c strcmp, strstr, strspn and strcspn: strings are compared   *)
(* as words are in a dictionary; the first place of a string in another is *)
(* found; and a string is cut at the first byte that is not, or is, one of *)
(* a set.                                                                  *)
StringsRight ==
  \A s, t \in Address :
    LET x == String(Bytes, s)
        y == String(Bytes, t)
        found == {i \in 0 .. Len(x) - Len(y) : SubSeq(x, i + 1, i + Len(y)) = y}
        In(n) == {x[i] : i \in 1..n} \subseteq {y[i] : i \in DOMAIN y}
        Out(n) == {x[i] : i \in 1..n} \cap {y[i] : i \in DOMAIN y} = {}
    IN /\ strcmp(Bytes, s, t) = IF Before(x, y) THEN -1 ELSE IF Before(y, x) THEN 1 ELSE 0
       /\ strstr(Bytes, s, t) = IF found = {} THEN Null ELSE s + Min(found)
       /\ strspn(Bytes, s, t) = Max({n \in 0..Len(x) : In(n)})
       /\ strcspn(Bytes, s, t) = Max({n \in 0..Len(x) : Out(n)})
=============================================================================
