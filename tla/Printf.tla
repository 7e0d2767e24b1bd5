------------------------------- MODULE Printf -------------------------------
(***************************************************************************)
(* The conversions of lib/stdio.c: __vprintf for one conversion            *)
(* specification, from the character behind its % on.  A digit is a        *)
(* number, in the format and in what is printed; a char has ByteBits bits. *)
(***************************************************************************)
EXTENDS Integers, Sequences, FiniteSetsExt

CONSTANTS MINUS, PLUS, SPACE, POUND, GROUP,       \* flags; ZERO is the digit 0
          DOT, STAR, H, J, L, T, Z, COMMA, X,
          ByteBits,
          BUF_SIZE           \* of buf, 64

VARIABLE format              \* without the letter of the conversion

ZERO == 0
Flag == {MINUS, PLUS, SPACE, POUND, GROUP, ZERO}
Conversion == {"d", "o", "u", "x", "p"}
After(s, n) == SubSeq(s, n + 1, Len(s))
Span(s, chars) == Min({i \in 0..Len(s) : i = Len(s) \/ s[i + 1] \notin chars})
Dup(ch, cnt) == [i \in 1..cnt |-> ch]

----------------------------------------------------------------------------
(* A width or a precision: digits, or a * and an argument *)
Field(s, star) ==
  LET n == Span(s, 0..9)
      value[i \in 0..n] == IF i = 0 THEN 0 ELSE value[i - 1] * 10 + s[i]
  IN IF s # <<>> /\ Head(s) = STAR
     THEN [n |-> star, rest |-> Tail(s)]
     ELSE [n |-> value[n], rest |-> After(s, n)]

(* The bits of the argument, by the letters of its type *)
TypeBits(s) ==
  CASE s = <<H, H>> -> ByteBits
    [] s = <<H>> -> 2 * ByteBits
    [] s \in {<<J>>, <<L, L>>} -> 8 * ByteBits
    [] s \in {<<>>, <<L>>, <<T>>, <<Z>>} -> 4 * ByteBits

(* A precision that is not there, or negative *)
None == -1
parse_conversion(s, star) ==
  LET n == Span(s, Flag)
      given == {s[i] : i \in 1..n}
      kept == (given \ (IF MINUS \in given THEN {ZERO} ELSE {})) \ (IF PLUS \in given THEN {SPACE} ELSE {})
      width == Field(After(s, n), star)
      point == width.rest # <<>> /\ Head(width.rest) = DOT
      precision == IF point THEN Field(Tail(width.rest), star) ELSE [n |-> None, rest |-> width.rest]
      flags == kept \cup (IF width.n < 0 THEN {MINUS} ELSE {})
  IN [flags |-> IF precision.n >= 0 THEN flags \ {ZERO} ELSE flags,
      width |-> IF width.n < 0 THEN -width.n ELSE width.n,
      precision |-> IF precision.n >= 0 THEN precision.n ELSE None,
      bits |-> TypeBits(precision.rest)]

(* A comma goes between groups of digits. *)
NewGroup(cnt, group) == cnt > 0 /\ cnt % group = 0

(* The digits of a number into buf, the last one first *)
RECURSIVE Accumulate(_, _, _, _, _)
Accumulate(value, base, group, buf, cnt) ==
  IF value = 0 THEN buf
  ELSE LET comma == IF group > 0 /\ NewGroup(cnt, group) THEN <<COMMA>> ELSE <<>>
       IN Accumulate(value \div base, base, group, buf \o comma \o <<value % base>>, cnt + 1)

(* What the precision and # ask for is put behind, up to the end of buf.   *)
Bound == BUF_SIZE - 1
Rendered(value, base, c) ==
  LET group == IF GROUP \notin c.flags THEN 0 ELSE IF base = 16 THEN 4 ELSE 3
      digits == Accumulate(value, base, group, <<>>, 0)
      precision == IF c.precision < 0 THEN 1 ELSE c.precision
      filled == digits \o Dup(0, Max({0, Min({precision, Bound}) - Len(digits)}))
      octal == POUND \in c.flags /\ base = 8 /\ (filled = <<>> \/ filled[Len(filled)] # 0)
  IN IF octal THEN Append(filled, 0) ELSE filled

Sign(signed, negative, c) ==
  IF ~signed THEN <<>> ELSE IF negative THEN <<MINUS>>
  ELSE IF PLUS \in c.flags THEN <<PLUS>> ELSE IF SPACE \in c.flags THEN <<SPACE>> ELSE <<>>

Backwards(buf) == [i \in DOMAIN buf |-> buf[Len(buf) + 1 - i]]
format_integer(value, signed, negative, base, c) ==
  LET buf == Rendered(value, base, c)
      sign == Sign(signed, negative, c)
      x == IF POUND \in c.flags /\ value # 0 /\ base = 16 THEN <<0, X>> ELSE <<>>
      pad_cnt == Max({0, c.width - Len(buf) - Len(x) - Len(sign)})
  IN (IF c.flags \cap {MINUS, ZERO} = {} THEN Dup(SPACE, pad_cnt) ELSE <<>>)
     \o sign \o x
     \o (IF ZERO \in c.flags THEN Dup(0, pad_cnt) ELSE <<>>)
     \o Backwards(buf)
     \o (IF MINUS \in c.flags THEN Dup(SPACE, pad_cnt) ELSE <<>>)
----------------------------------------------------------------------------
(* The argument as a number of so many bits, the negated one as uintmax_t  *)
Wrapped(n, bits, signed) ==
  LET u == n % 2^bits IN IF signed /\ u >= 2^(bits - 1) THEN u - 2^bits ELSE u
Magnitude(n) == IF n < 0 THEN (-n) % 2^(8 * ByteBits) ELSE n
BaseOf(conversion) == CASE conversion \in {"d", "u"} -> 10 [] conversion = "o" -> 8 [] OTHER -> 16

(* What the argument is taken for: its type's, a pointer's with %p *)
Value(c, conversion, n) ==
  Wrapped(n, IF conversion = "p" THEN 4 * ByteBits ELSE c.bits, conversion = "d")
Specified(conversion, star) ==
  LET c == parse_conversion(format, star)
  IN IF conversion = "p" THEN [c EXCEPT !.flags = {POUND}] ELSE c
__vprintf(conversion, star, n) ==
  LET c == Specified(conversion, star)
      value == Value(c, conversion, n)
  IN format_integer(Magnitude(value), conversion = "d", value < 0, BaseOf(conversion), c)

----------------------------------------------------------------------------
(* One conversion. *)
Convert(s) == format' = s
Stars == IF STAR \in {format[i] : i \in DOMAIN format} THEN {-7, 2} ELSE {2}
Args == {0, 1, -1, 7, 8, -12, 100, 2^(4 * ByteBits - 1), 4095, 2^(8 * ByteBits) - 1, 2^(8 * ByteBits - 1)}

(* What is printed, read back: the digits behind any 0x *)
First(out) == IF \E i \in DOMAIN out : out[i] = X THEN 1 + CHOOSE i \in DOMAIN out : out[i] = X ELSE 1
DigitsOf(out) == SelectSeq(After(out, First(out) - 1), LAMBDA ch : ch \in 0..15)
Number(digits, base) ==
  LET upto[i \in 0..Len(digits)] == IF i = 0 THEN 0 ELSE upto[i - 1] * base + digits[i]
  IN upto[Len(digits)]
Places(out, ch) == {i \in DOMAIN out : out[i] = ch}
(* Both ends are padded when a negative argument gives the width and the   *)
(* 0 flag is there: - then no longer takes 0 away.                         *)
PadsTwice(c) == {MINUS, ZERO} \subseteq c.flags

(* lib/stdio.c: whatever the flags, the width, the precision and the type, *)
(* an integer conversion prints the argument's value, with a - when it is  *)
(* negative, and as many digits as the precision asks for; it fills the    *)
(* width on the side the flags say, and adds nothing when there is no need *)
(* to; each comma has whole groups behind it.                              *)
PrintedRight ==
  \A conversion \in Conversion, star \in Stars, n \in Args :
    LET c == Specified(conversion, star)
        value == Value(c, conversion, n)
        out == __vprintf(conversion, star, n)
        digits == DigitsOf(out)
        signs == IF conversion = "d" /\ SPACE \in c.flags /\ value >= 0 THEN 1 ELSE 0
        pads == Cardinality(Places(out, SPACE)) - signs
    IN /\ Number(digits, BaseOf(conversion)) = Magnitude(value)
       /\ Places(out, MINUS) # {} <=> value < 0
       /\ c.precision < BUF_SIZE /\ GROUP \notin c.flags => Len(digits) >= c.precision
       /\ ~PadsTwice(c) => /\ Len(out) >= c.width
                           /\ Len(out) > c.width => pads = 0
                           /\ pads > 0 => out[IF MINUS \in c.flags THEN Len(out) ELSE 1] = SPACE
       /\ \A i \in Places(out, COMMA) :
            LET behind == Len(SelectSeq(After(out, i), LAMBDA ch : ch \in 0..15))
            IN behind > 0 /\ behind % (IF BaseOf(conversion) = 16 THEN 4 ELSE 3) = 0

(* lib/stdio.c format_integer: the digits, the commas and the zeros that a *)
(* precision or # asks for stay within buf.                                *)
BufferFits ==
  \A conversion \in Conversion, star \in Stars, n \in Args :
    LET c == Specified(conversion, star)
    IN Len(Rendered(Magnitude(Value(c, conversion, n)), BaseOf(conversion), c)) <= BUF_SIZE
=============================================================================
