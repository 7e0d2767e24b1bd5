------------------------------- MODULE Stdlib -------------------------------
(***************************************************************************)
(* lib/stdlib.c: sort (a heap sort), binary_search and atoi, each against  *)
(* what it is to compute, on every array and every text up to a length.    *)
(***************************************************************************)
EXTENDS Integers, Sequences, FiniteSets

CONSTANTS Item,          \* the elements, numbers in the order of COMPARE
          Char,          \* of the texts: digits, and
          SPACE, PLUS, MINUS,
          BITS,          \* of an int
          MaxArray, MaxText

VARIABLES array, text

----------------------------------------------------------------------------
(* Indexes are from 1, as in heapify. *)
do_swap(a, i, j) == [a EXCEPT ![i] = a[j], ![j] = a[i]]

(* The index of the largest among element i and its children *)
Largest(a, i, cnt) ==
  LET left == IF 2 * i <= cnt /\ a[2 * i] > a[i] THEN 2 * i ELSE i
  IN IF 2 * i + 1 <= cnt /\ a[2 * i + 1] > a[left] THEN 2 * i + 1 ELSE left

(* The element with index i floats down the heap of the first cnt elements. *)
RECURSIVE heapify(_, _, _)
heapify(a, i, cnt) ==
  LET max == Largest(a, i, cnt)
  IN IF max = i THEN a ELSE heapify(do_swap(a, i, max), max, cnt)

(* The two loops of sort: from index i down, build a heap; then, from the  *)
(* end, put the largest of the heap behind it.                             *)
RECURSIVE BuildHeap(_, _)
BuildHeap(a, i) == IF i = 0 THEN a ELSE BuildHeap(heapify(a, i, Len(a)), i - 1)

RECURSIVE SortHeap(_, _)
SortHeap(a, i) == IF i <= 1 THEN a ELSE SortHeap(heapify(do_swap(a, 1, i), 1, i - 1), i - 1)

sort(a) == SortHeap(BuildHeap(a, Len(a) \div 2), Len(a))

(* The end of the lower half *)
Upper(middle) == middle

(* binary_search between first and last, which is beyond the range: the    *)
(* index of a match, or 0.                                                 *)
RECURSIVE SearchFrom(_, _, _, _)
SearchFrom(key, a, first, last) ==
  LET middle == first + (last - first) \div 2
  IN IF first >= last THEN 0
     ELSE IF key < a[middle] THEN SearchFrom(key, a, first, Upper(middle))
     ELSE IF key > a[middle] THEN SearchFrom(key, a, middle + 1, last)
     ELSE middle
binary_search(key, a) == SearchFrom(key, a, 1, Len(a) + 1)

----------------------------------------------------------------------------
(* Signed arithmetic is undefined beyond the range of an int.              *)
INT == -(2^(BITS - 1)) .. 2^(BITS - 1) - 1
Undefined == 2^BITS
Checked(n) == IF n \in INT THEN n ELSE Undefined
Digit == Char \cap 0..9
Sign == {PLUS, MINUS}

(* What follows the spaces *)
RECURSIVE SkipSpace(_)
SkipSpace(s) == IF s # <<>> /\ Head(s) = SPACE THEN SkipSpace(Tail(s)) ELSE s

(* The digits are taken off the value, so that the smallest int can be read. *)
RECURSIVE Digits(_, _)
Digits(value, s) ==
  IF s # <<>> /\ Head(s) \in Digit THEN Digits(Checked(value * 10 - Head(s)), Tail(s)) ELSE value

atoi(string) ==
  LET s == SkipSpace(string)
      sign == s # <<>> /\ Head(s) \in Sign
      value == Digits(0, IF sign THEN Tail(s) ELSE s)
  IN IF s # <<>> /\ Head(s) = MINUS THEN value ELSE Checked(-value)

----------------------------------------------------------------------------
(* Arrays and texts of every kind. *)
Init == array = <<>> /\ text = <<>>
MoreArray == /\ text = <<>> /\ Len(array) < MaxArray
             /\ \E x \in Item : array' = Append(array, x)
             /\ UNCHANGED text
MoreText == /\ array = <<>> /\ Len(text) < MaxText
            /\ \E ch \in Char : text' = Append(text, ch)
            /\ UNCHANGED array

(* lib/stdlib.c sort: what it returns is in order and has the elements of  *)
(* the array, each as often.                                               *)
Count(x, a) == Cardinality({i \in DOMAIN a : a[i] = x})
SortRight ==
  LET a == sort(array) IN
  /\ \A i, j \in DOMAIN a : i < j => a[i] <= a[j]
  /\ \A x \in Item : Count(x, a) = Count(x, array)

(* lib/stdlib.c binary_search: in a sorted array it finds each element that *)
(* is there, at any position, and nothing else.                             *)
SearchRight ==
  LET a == sort(array) IN
  \A key \in Item :
    LET i == binary_search(key, a)
    IN IF Count(key, array) = 0 THEN i = 0 ELSE i \in DOMAIN a /\ a[i] = key

(* The number a text stands for: spaces, a sign, digits up to the first     *)
(* character that is none.                                                  *)
Start(s) == CHOOSE i \in 1..Len(s) + 1 :
              (\A j \in 1..i - 1 : s[j] = SPACE) /\ (i <= Len(s) => s[i] # SPACE)
Magnitude(s, first) ==
  LET last == CHOOSE i \in first - 1 .. Len(s) :
                (\A j \in first..i : s[j] \in Digit) /\ (i < Len(s) => s[i + 1] \notin Digit)
      Weight[i \in first - 1 .. last] == IF i < first THEN 0 ELSE Weight[i - 1] * 10 + s[i]
  IN Weight[last]
Number(s) ==
  LET i == Start(s) IN
  IF i <= Len(s) /\ s[i] = MINUS THEN -Magnitude(s, i + 1)
  ELSE IF i <= Len(s) /\ s[i] = PLUS THEN Magnitude(s, i + 1)
  ELSE Magnitude(s, i)

(* lib/stdlib.c atoi: every number an int can hold is read right, the       *)
(* smallest one included ("the negative range of an int is bigger than the  *)
(* positive range").                                                        *)
AtoiRight == Number(text) \in INT => atoi(text) = Number(text)
=============================================================================
