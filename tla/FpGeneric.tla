----------------------------- MODULE FpGeneric -----------------------------
(***************************************************************************)
(* The portable arithmetic of multest's SIKE library: the macros on digits *)
(* of config.h, and fp_generic.c on numbers of NWORDS_FIELD digits, lowest *)
(* first.  A digit has RADIX bits (32 in the code), and of the digits of   *)
(* the prime plus one the lowest p434_ZERO_WORDS are 0.  A flag is 0 or 1. *)
(***************************************************************************)
EXTENDS Integers, Sequences, SequencesExt

CONSTANTS
  RADIX,                   \* an even number of bits
  NWORDS_FIELD, p434_ZERO_WORDS,
  p434, p434p1, p434x2     \* the prime, the prime plus one, twice the prime

Base == 2^RADIX
HalfBase == 2^(RADIX \div 2)

Zero(n) == [i \in 1..n |-> 0]
Interval(lo, hi) == [i \in 1..(hi - lo + 1) |-> lo + i - 1]

-----------------------------------------------------------------------------
(* Comparisons without a branch: they are about the top bit of a digit.    *)
Top(x) == x >= Base \div 2
Flag(b) == IF b THEN 1 ELSE 0

is_digit_nonzero_ct(x) == Top(x) \/ Top((Base - x) % Base)
is_digit_zero_ct(x) == ~is_digit_nonzero_ct(x)
is_digit_lessthan_ct(x, y) ==
  Top(x) # ((Top(x) # Top(y)) \/ (Top((x - y + Base) % Base) # Top(y)))

(* Addition and subtraction of digits: a digit d and what is carried.      *)
Added(carryIn, tempReg, sum) ==
  [d |-> sum,
   carry |-> Flag(is_digit_lessthan_ct(tempReg, carryIn) \/ is_digit_lessthan_ct(sum, tempReg))]
ADDC(carryIn, x, y) ==
  Added(carryIn, (x + carryIn) % Base, (y + ((x + carryIn) % Base)) % Base)

SUBC(borrowIn, x, y) ==
  LET tempReg == (x - y + Base) % Base
  IN [d |-> (tempReg - borrowIn + Base) % Base,
      carry |-> Flag(\/ is_digit_lessthan_ct(x, y)
                     \/ borrowIn = 1 /\ is_digit_zero_ct(tempReg))]

(* The loops of both from the lowest digit to the highest.  (A loop over s *)
(* from a start is a function of its rounds lo to hi, those up to the      *)
(* middle and then the rest, for TLC to compute what one round leaves      *)
(* before it starts with the next, and without deep recursion.)            *)
digit_t == 0..(Base - 1)
Loop(States, Step, start, s) ==
  LET rounds[x \in States, lo \in Nat, hi \in Nat] ==
        IF lo = hi THEN Step[x, s[lo]]
        ELSE rounds[rounds[x, lo, (lo + hi) \div 2], (lo + hi) \div 2 + 1, hi]
  IN IF s = <<>> THEN start ELSE rounds[start, 1, Len(s)]

Ripple == [c : Seq(digit_t), carry : 0..1]
Rippled(Op(_, _, _), x, y) ==
  LET one(r, s) == [c |-> Append(r.c, s.d), carry |-> s.carry]
      next == [r \in Ripple, i \in Nat |-> one(r, Op(r.carry, x[i], y[i]))]
  IN Loop(Ripple, next, [c |-> <<>>, carry |-> 0], Interval(1, Len(x)))
mp_add(x, y) == Rippled(ADDC, x, y)
mp_sub(x, y) == Rippled(SUBC, x, y)

(* All digits of x, or none: & mask, where mask = 0 - flag.                *)
Masked(x, flag) == IF flag = 1 THEN x ELSE Zero(Len(x))

SHIFTR(high, low, shift) == (low \div 2^shift) + ((high % 2^shift) * 2^(RADIX - shift))
SHIFTL(high, low, shift) == ((high * 2^shift) % Base) + (low \div 2^(RADIX - shift))
DigitOf(x, i) == IF i \in DOMAIN x THEN x[i] ELSE 0

mp_shiftr1(x) == [i \in 1..Len(x) |-> SHIFTR(DigitOf(x, i + 1), x[i], 1)]
mp_shiftl1(x) == [i \in 1..Len(x) |-> SHIFTL(x[i], DigitOf(x, i - 1), 1)]

(* By whole digits, then by the bits that are left: 1 to RADIX of them.    *)
(* RADIX of them would be too many for C's shift; nothing here asks for it.*)
mp_shiftleft(x, shift) ==
  LET words == IF shift = 0 THEN 0 ELSE (shift - 1) \div RADIX
      bits == shift - words * RADIX
      moved == [i \in 1..Len(x) |-> DigitOf(x, i - words)]
  IN [i \in 1..Len(x) |-> SHIFTL(moved[i], DigitOf(moved, i - 1), bits)]

-----------------------------------------------------------------------------
(* fp_generic.c: modulo the prime, on representatives below twice the      *)
(* prime.                                                                  *)

fpadd(a, b) ==
  LET c == mp_sub(mp_add(a, b).c, p434x2)
  IN mp_add(c.c, Masked(p434x2, c.carry)).c

fpsub(a, b) ==
  LET c == mp_sub(a, b)
  IN mp_add(c.c, Masked(p434x2, c.carry)).c

fpneg(a) == mp_sub(p434x2, a).c

fpdiv2(a) == mp_shiftr1(mp_add(a, Masked(p434, a[1] % 2)).c)

fpcorrection(a) ==
  LET c == mp_sub(a, p434)
  IN mp_add(c.c, Masked(p434, c.carry)).c

(* The two digits of a product, from the four products of half digits.     *)
FromHalves(albl, albh, ahbl, ahbh) ==
  LET low  == (albl \div HalfBase) + (ahbl % HalfBase) + (albh % HalfBase)
      high == (ahbl \div HalfBase) + (albh \div HalfBase) + (ahbh % HalfBase) + (low \div HalfBase)
  IN <<(albl % HalfBase) + ((low % HalfBase) * HalfBase),
       (high % HalfBase) + ((((ahbh \div HalfBase) + (high \div HalfBase)) * HalfBase) % Base)>>
digit_x_digit(a, b) ==
  FromHalves((a % HalfBase) * (b % HalfBase), (a % HalfBase) * (b \div HalfBase),
             (a \div HalfBase) * (b % HalfBase), (a \div HalfBase) * (b \div HalfBase))

(* A column of a product is summed in three digits t, u, v: a double digit *)
(* goes into v and u, and what u carries into t.                           *)
NoColumn == [t |-> 0, u |-> 0, v |-> 0]
IntoT(s, v, u) == [t |-> (s.t + u.carry) % Base, u |-> u.d, v |-> v.d]
IntoU(s, v, high) == IntoT(s, v, ADDC(v.carry, high, s.u))
Into(s, UV) == IntoU(s, ADDC(0, UV[1], s.v), UV[2])

(* The pairs a[j], b[i - j] of column i for each j of a sequence, on top   *)
(* of what the columns below have carried; then the lowest digit leaves.   *)
Column == [t : digit_t, u : digit_t, v : digit_t]
PlusColumn(s, a, b, i, js) ==
  LET next == [x \in Column, j \in Nat |-> Into(x, digit_x_digit(a[j + 1], b[i - j + 1]))]
  IN Loop(Column, next, s, js)
Emit(digits, s) == [c |-> Append(digits, s.v), s |-> [t |-> 0, u |-> s.t, v |-> s.u]]

(* What a loop over columns works on: the digits that have left, a column. *)
Partial == [c : Seq(digit_t), s : Column]

mp_mul(a, b, nwords) ==
  LET row(i) == IF i < nwords THEN Interval(0, i) ELSE Interval(i - nwords + 1, nwords - 1)
      next == [x \in Partial, i \in Nat |-> Emit(x.c, PlusColumn(x.s, a, b, i, row(i)))]
      last(x) == Append(x.c, x.s.v)
  IN last(Loop(Partial, next, [c |-> <<>>, s |-> NoColumn], Interval(0, 2 * nwords - 2)))

(* Montgomery reduction of 2 * NWORDS_FIELD digits.  The lowest digits of  *)
(* p434p1 are 0, and their products are skipped: in the first loop by a    *)
(* comparison of unsigned numbers, which lets all of them through where    *)
(* i - p434_ZERO_WORDS + 1 wraps around, in the second by a counter.       *)
Unskipped(i, j) == i - p434_ZERO_WORDS + 1 < 0 \/ j < i - p434_ZERO_WORDS + 1
CountsLate(i) == IF i - NWORDS_FIELD < p434_ZERO_WORDS
                 THEN p434_ZERO_WORDS - (i - NWORDS_FIELD) + 1 ELSE 0
Count(i) == IF i - NWORDS_FIELD < p434_ZERO_WORDS
            THEN p434_ZERO_WORDS - (i - NWORDS_FIELD + 1) ELSE 0

rdc_mont(ma) ==
  LET n == NWORDS_FIELD
      lower(i) == SelectSeq(Interval(0, i - 1), LAMBDA j : Unskipped(i, j))
      upper(i) == SelectSeq(Interval(i - n + 1, n - 1), LAMBDA j : j < n - Count(i))
      column(s, q, i, js) == Into(PlusColumn(s, q, p434p1, i, js), <<ma[i + 1], 0>>)
      first == [x \in Partial, i \in Nat |-> Emit(x.c, column(x.s, x.c, i, lower(i)))]
      second(q) == [x \in Partial, i \in Nat |-> Emit(x.c, column(x.s, q, i, upper(i)))]
      half(x) == Loop(Partial, second(x.c), [c |-> <<>>, s |-> x.s], Interval(n, 2 * n - 2))
      last(x) == Append(x.c, (x.s.v + ma[2 * n]) % Base)
  IN last(half(Loop(Partial, first, [c |-> <<>>, s |-> NoColumn], Interval(0, n - 1))))
=============================================================================
