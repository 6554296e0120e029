------------------------------ MODULE PrintInt ------------------------------
(***************************************************************************)
(* print_int of multest: a number of 64 bits in decimal, with a division   *)
(* by ten made of shifts and sums.  A number is four limbs of 16 bits,     *)
(* lowest first; a step is a round of the loop.                            *)
(***************************************************************************)
EXTENDS Integers, Sequences, SequencesExt

CONSTANT Printed    \* the numbers printed, as limbs

VARIABLES
  number,   \* what print_int was called with
  c, i,     \* its variables
  outs      \* the digits written to outs[i + 1..19], the leading one first

printVars == <<number, c, i, outs>>

Limb == 65536
Small(n) == <<n, 0, 0, 0>>

Limbs(Is(_)) == <<Is(1), Is(2), Is(3), Is(4)>>
Carried(r, sum) == [n |-> Append(r.n, sum % Limb), carry |-> sum \div Limb]
Sum4(x, y, carry) ==
  FoldLeft(LAMBDA r, k : Carried(r, x[k] + y[k] + r.carry), [n |-> <<>>, carry |-> carry], <<1, 2, 3, 4>>).n
Plus(x, y)  == Sum4(x, y, 0)
Minus(x, y) == Sum4(x, Limbs(LAMBDA k : Limb - 1 - y[k]), 1)

LimbOf(x, k) == IF k \in 1..4 THEN x[k] ELSE 0
ShiftRight(x, n) ==
  Limbs(LAMBDA k : (LimbOf(x, k + (n \div 16)) \div 2^(n % 16))
                   + ((LimbOf(x, k + (n \div 16) + 1) % 2^(n % 16)) * 2^(16 - (n % 16))))
ShiftLeft(x, n) ==
  Limbs(LAMBDA k : ((x[k] * 2^n) % Limb) + (LimbOf(x, k - 1) \div 2^(16 - n)))
Times10(x) == Plus(ShiftLeft(x, 3), ShiftLeft(x, 1))

(* 0.8 of a number, nearly, and a tenth of it: short of it by 1 at most.   *)
Refined(q, n) == Plus(q, ShiftRight(q, n))
Quotient(n) ==
  ShiftRight(
    Refined(Refined(Refined(Refined(Plus(ShiftRight(n, 1), ShiftRight(n, 2)), 4), 8), 16), 32), 3)

Below10(n) == n[1] < 10 /\ n[2] = 0 /\ n[3] = 0 /\ n[4] = 0

(* The remainder, and the quotient with its correction.                    *)
KeepsQuotient(q, r) ==
  IF Below10(r) THEN [c |-> q, digit |-> r[1]]
                ELSE [c |-> q, digit |-> Minus(r, Small(10))[1]]
Divided(q, r) ==
  IF Below10(r) THEN [c |-> q, digit |-> r[1]]
                ELSE [c |-> Plus(q, Small(1)), digit |-> Minus(r, Small(10))[1]]
Division(n, q) == Divided(q, Minus(n, Times10(q)))

PrintInit ==
  /\ number \in Printed
  /\ c = number
  /\ IF Below10(number) THEN i = 0 /\ outs = <<number[1]>> ELSE i = 19 /\ outs = <<>>

Round ==
  /\ ~Below10(number) /\ c # Small(0)
  /\ \E d \in {Division(c, Quotient(c))} :
       c' = d.c /\ outs' = <<d.digit>> \o outs
  /\ i' = i - 1
  /\ UNCHANGED number

PrintSpec == PrintInit /\ [][Round]_printVars

-----------------------------------------------------------------------------
(* Properties.                                                             *)

Appended(n, digits) == FoldLeft(LAMBDA x, d : Plus(Times10(x), Small(d)), n, digits)

(* At any time what is left of the number, followed by the digits written, *)
(* is the number: the error of the approximate quotient never exceeds the  *)
(* one correction.  The digits are digits, they fit outs, the first of all *)
(* is not 0, and outs keeps a 0 behind the last for print.                 *)
PrintsDecimal ==
  IF Below10(number) THEN outs = <<number[1]>>
  ELSE /\ Appended(c, outs) = number
       /\ \A k \in DOMAIN outs : outs[k] \in 0..9
       /\ i >= -1 /\ i + Len(outs) = 19
       /\ c = Small(0) => outs[1] # 0
=============================================================================
