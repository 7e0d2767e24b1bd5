------------------------------- MODULE Bitmap -------------------------------
(***************************************************************************)
(* The bitmaps of bitmap.c: b.bit_cnt bits in words of ELEM_BITS bits.     *)
(***************************************************************************)
EXTENDS Integers

CONSTANT ELEM_BITS   \* 32

elem_idx(i) == i \div ELEM_BITS
bit_mask(i) == 2^(i % ELEM_BITS)
elem_cnt(n) == (n + ELEM_BITS - 1) \div ELEM_BITS

bitmap_test(b, i) == (b.bits[elem_idx(i)] \div bit_mask(i)) % 2 = 1
bitmap_mark(b, i) == IF bitmap_test(b, i) THEN b ELSE [b EXCEPT !.bits[elem_idx(i)] = @ + bit_mask(i)]
bitmap_reset(b, i) == IF bitmap_test(b, i) THEN [b EXCEPT !.bits[elem_idx(i)] = @ - bit_mask(i)] ELSE b
bitmap_set(b, i, value) == IF value THEN bitmap_mark(b, i) ELSE bitmap_reset(b, i)

(* The bits from start on, one after the other *)
RECURSIVE bitmap_set_multiple(_, _, _, _)
bitmap_set_multiple(b, start, cnt, value) ==
  IF cnt = 0 THEN b ELSE bitmap_set_multiple(bitmap_set(b, start, value), start + 1, cnt - 1, value)

bitmap_create(n) ==
  bitmap_set_multiple([bit_cnt |-> n, bits |-> [w \in 0..elem_cnt(n) - 1 |-> 0]], 0, n, FALSE)

bitmap_contains(b, start, cnt, value) == \E i \in start..start + cnt - 1 : bitmap_test(b, i) = value
=============================================================================
