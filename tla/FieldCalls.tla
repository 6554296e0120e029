----------------------------- MODULE FieldCalls -----------------------------
(***************************************************************************)
(* A caller of fpx.c: it converts two elements to Montgomery               *)
(* representation and calls operations on them, each of which may be given *)
(* what any other has returned.                                            *)
(***************************************************************************)
EXTENDS Fpx, FiniteSets

CONSTANTS
  Given,     \* the elements a caller starts from, as pairs of residues
  MaxCalls   \* bound: operations of a caller

VARIABLES op, x, y, out, calls

fieldVars == <<op, x, y, out, calls>>

(* A residue as digits, and digits as a number.                            *)
ToDigits(n) == [i \in 1..NWORDS_FIELD |-> (n \div Base^(i - 1)) % Base]
Number(a) == FoldRight(LAMBDA d, n : d + Base * n, a, 0)

Starts(e, f) ==
  /\ x = to_fp2mont(<<ToDigits(e[1]), ToDigits(e[2])>>)
  /\ y = to_fp2mont(<<ToDigits(f[1]), ToDigits(f[2])>>)
  /\ op = "none" /\ out = fp2zero /\ calls = 0
FieldInit == \E e, f \in Given : e # f /\ Starts(e, f)

Calls(name) == op' = name /\ calls < MaxCalls /\ calls' = calls + 1
Returns(name, e) == Calls(name) /\ x' = e /\ UNCHANGED <<y, out>>

Fp2Copy == Calls("fp2copy") /\ y' = x /\ UNCHANGED <<x, out>>
FromFp2Mont == Calls("from_fp2mont") /\ out' = from_fp2mont(x) /\ UNCHANGED <<x, y>>

FieldNext ==
  \/ Returns("fp2add", fp2add(x, y))
  \/ Returns("fp2sub", fp2sub(x, y))
  \/ Returns("fp2mul_mont", fp2mul_mont(x, y))
  \/ Returns("fp2sqr_mont", fp2sqr_mont(x))
  \/ Returns("fp2neg", fp2neg(x))
  \/ Returns("fp2div2", fp2div2(x))
  \/ Returns("fp2inv_mont", fp2inv_mont(x))
  \/ Returns("fp2zero", fp2zero)
  \/ Returns("fp2correction", fp2correction(x))
  \/ Fp2Copy
  \/ FromFp2Mont

FieldSpec == FieldInit /\ [][FieldNext]_fieldVars
=============================================================================
