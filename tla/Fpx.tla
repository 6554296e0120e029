-------------------------------- MODULE Fpx --------------------------------
(***************************************************************************)
(* fpx.c: the prime field in Montgomery representation, a times 2^(RADIX * *)
(* NWORDS_FIELD), and its quadratic extension, whose elements are pairs    *)
(* <<a0, a1>> for a0 + a1 * i.  Results are written over operands only     *)
(* after the last use of those, so that a call is a function of them.      *)
(***************************************************************************)
EXTENDS FpGeneric

CONSTANTS
  Montgomery_R2,
  Chain    \* of fpinv_chain_mont: its table and its windows, see P434

FpZero == Zero(NWORDS_FIELD)
FpOne == [FpZero EXCEPT ![1] = 1]

(* Functions rather than operators where TLC must compute the operands     *)
(* first.                                                                  *)
felm_t == Seq(digit_t)
dfelm_t == Seq(digit_t)
MontgomeryProduct == [ma \in felm_t, mb \in felm_t |-> rdc_mont(mp_mul(ma, mb, NWORDS_FIELD))]
fpmul_mont(ma, mb) == MontgomeryProduct[ma, mb]
fpsqr_mont(ma) == MontgomeryProduct[ma, ma]

to_mont(a) == fpmul_mont(a, Montgomery_R2)
from_mont(ma) == fpcorrection(fpmul_mont(ma, FpOne))

(* The power (p - 3) / 4 of a: each entry of the table is the one before   *)
(* times a^2 as often as Chain.table says; then every window squares, and  *)
(* multiplies by an entry, or by a itself.                                 *)
Powers(a, aa) ==
  FoldLeft(LAMBDA t, steps : Append(t, FoldLeft(LAMBDA e, i : fpmul_mont(e, aa), t[Len(t)], Interval(1, steps))),
           <<a>>, Chain.table)
Windows(t) ==
  FoldLeft(LAMBDA tt, w : fpmul_mont(t[w[2] + 1], FoldLeft(LAMBDA e, i : fpsqr_mont(e), tt, Interval(1, w[1]))),
           t[1], Chain.windows)
fpinv_chain_mont(a) == Windows(Powers(a, fpsqr_mont(a)))

fpinv_mont(a) == fpmul_mont(a, fpsqr_mont(fpsqr_mont(fpinv_chain_mont(a))))

-----------------------------------------------------------------------------
fp2zero == <<FpZero, FpZero>>
fp2neg(a) == <<fpneg(a[1]), fpneg(a[2])>>
fp2add(a, b) == <<fpadd(a[1], b[1]), fpadd(a[2], b[2])>>
fp2sub(a, b) == <<fpsub(a[1], b[1]), fpsub(a[2], b[2])>>
fp2div2(a) == <<fpdiv2(a[1]), fpdiv2(a[2])>>
fp2correction(a) == <<fpcorrection(a[1]), fpcorrection(a[2])>>

mp_addfast(a, b) == mp_add(a, b).c
mp_subfast(a, b) == mp_sub(a, b)
mp_dblsubfast(a, b, c) == mp_sub(mp_sub(c, a).c, b).c

fp2sqr_mont(a) ==
  <<fpmul_mont(mp_addfast(a[1], a[2]), fpsub(a[1], a[2])),
    fpmul_mont(mp_addfast(a[1], a[1]), a[2])>>

(* Three products for four.  Where a0 * b0 is the smaller one, the prime   *)
(* is added to the upper half of the difference.                           *)
UpperPlus(tt, c) ==
  SubSeq(tt, 1, NWORDS_FIELD) \o mp_addfast(SubSeq(tt, NWORDS_FIELD + 1, 2 * NWORDS_FIELD), c)
Positive(difference) == UpperPlus(difference.c, Masked(p434, difference.carry))
Reduced == [ma \in dfelm_t |-> rdc_mont(ma)]
FromThree ==
  [tt1 \in dfelm_t, tt2 \in dfelm_t, tt3 \in dfelm_t |->
     <<Reduced[Positive(mp_subfast(tt1, tt2))], Reduced[mp_dblsubfast(tt1, tt2, tt3)]>>]
fp2mul_mont(a, b) ==
  FromThree[mp_mul(a[1], b[1], NWORDS_FIELD), mp_mul(a[2], b[2], NWORDS_FIELD),
            mp_mul(mp_addfast(a[1], a[2]), mp_addfast(b[1], b[2]), NWORDS_FIELD)]

(* The conjugate times the inverse of the norm.                            *)
Scaled(a, norm) == <<fpmul_mont(a[1], norm), fpmul_mont(fpneg(a[2]), norm)>>
fp2inv_mont(a) == Scaled(a, fpinv_mont(fpadd(fpsqr_mont(a[1]), fpsqr_mont(a[2]))))

to_fp2mont(a) == <<to_mont(a[1]), to_mont(a[2])>>
from_fp2mont(ma) == <<from_mont(ma[1]), from_mont(ma[2])>>
=============================================================================
