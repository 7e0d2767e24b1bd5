----------------------------- MODULE Arithmetic -----------------------------
(***************************************************************************)
(* lib/arithmetic.c: the division of numbers of two words, out of the      *)
(* processor's division of two words by one, which traps when the quotient *)
(* does not fit in a word.  A word has WordBits bits, 32 in the code.      *)
(***************************************************************************)
EXTENDS Integers

CONSTANT WordBits
VARIABLE divisor

b == 2^WordBits
Unsigned == 0 .. b^2 - 1
Signed == -(b^2 \div 2) .. b^2 \div 2 - 1
AsSigned(n, limit) == IF n % limit < limit \div 2 THEN n % limit ELSE (n % limit) - limit

----------------------------------------------------------------------------
Trap == -1
divl(n, d) == IF n \div d < b THEN n \div d ELSE Trap

(* The leading zeros of a word that is not 0, by halves: for a word of 32  *)
(* bits by 16, 8, 4, 2 and 1.                                              *)
Halves == {k \in 1..WordBits : \E i \in 1..WordBits : k * 2^i = WordBits}
nlz(x) ==
  LET step[k \in Halves] ==
        LET at == IF 2 * k = WordBits THEN [n |-> 0, x |-> x] ELSE step[2 * k]
        IN IF at.x < 2^(WordBits - k) THEN [n |-> at.n + k, x |-> at.x * 2^k] ELSE at
  IN step[1].n

(* A divisor of one word: in two divisions, of which neither traps. *)
ByWord(n, d) ==
  LET n1 == n \div b
      n0 == n % b
      q == divl(b * (n1 % d) + n0, d)
  IN IF q = Trap THEN Trap ELSE q + b * (n1 \div d)

(* A divisor of two: an estimate of the quotient, from the divisor's first *)
(* bits, that is right or one too large.                                   *)
TakeEstimate(n, d, q) == q
Corrected(n, d, q) == IF (n - (q - 1) * d) % b^2 < d THEN q - 1 ELSE q
ByTwoWords(n, d) ==
  LET s == nlz(d \div b)
      q == divl(n \div 2, ((d * 2^s) % b^2) \div b)
  IN IF q = Trap THEN Trap ELSE Corrected(n, d, q \div 2^(WordBits - 1 - s))

udiv64(n, d) == IF d < b THEN ByWord(n, d) ELSE IF n < d THEN 0 ELSE ByTwoWords(n, d)

(* The remainder is returned as one word. *)
umod64(n, d) == (n - d * udiv64(n, d)) % b

Magnitude(n) == IF n < 0 THEN (-n) % b^2 ELSE n
sdiv64(n, d) ==
  LET q == udiv64(Magnitude(n), Magnitude(d))
  IN AsSigned(IF (n < 0) = (d < 0) THEN q ELSE -q, b^2)
smod64(n, d) == AsSigned(n - d * sdiv64(n, d), b)

----------------------------------------------------------------------------
(* Every divisor. *)
Init == divisor = 1
MoreDivisor == divisor < b^2 - 1 /\ divisor' = divisor + 1

(* The quotient towards 0, as C has it *)
Towards0(n, d) == IF (n < 0) = (d < 0) THEN Magnitude(n) \div Magnitude(d) ELSE -(Magnitude(n) \div Magnitude(d))

(* lib/arithmetic.c: the quotients are right, and no division traps, for   *)
(* all n and d but the one quotient that is no signed number; so are the   *)
(* remainders that fit in a word, which umod64 and smod64 return.          *)
DivisionRight ==
  /\ \A n \in Unsigned :
       /\ udiv64(n, divisor) = n \div divisor
       /\ n % divisor < b => umod64(n, divisor) = n % divisor
  /\ \A n \in Signed :
       LET d == AsSigned(divisor, b^2)
           q == Towards0(n, d)
           r == n - d * q
       IN q \in Signed => /\ sdiv64(n, d) = q
                          /\ AsSigned(r, b) = r => smod64(n, d) = r
=============================================================================
