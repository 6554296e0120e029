---------------------------- MODULE FieldService ----------------------------
(***************************************************************************)
(* What fpx.c promises its callers: exact arithmetic in the field of       *)
(* Prime^2 elements, where i^2 = -1.  An element is a pair of residues,    *)
(* and no representation of it is seen but the one that is given out.      *)
(***************************************************************************)
EXTENDS Integers

CONSTANTS
  Prime,   \* one that is 3 modulo 4
  Given    \* the elements a caller starts from

Residues == 0..(Prime - 1)
Elements == Residues \X Residues

VARIABLES
  op,     \* the operation called last
  x, y,   \* two elements
  out     \* the element given out last

Zero == <<0, 0>>
One  == <<1, 0>>

Plus(a, b)  == <<(a[1] + b[1]) % Prime, (a[2] + b[2]) % Prime>>
Minus(a, b) == <<(a[1] - b[1]) % Prime, (a[2] - b[2]) % Prime>>
Times(a, b) == <<(a[1] * b[1] - a[2] * b[2]) % Prime, (a[1] * b[2] + a[2] * b[1]) % Prime>>

Init == op = "none" /\ {x, y} \subseteq Given /\ out = Zero

(* An operation that replaces x by an element that Is its result.          *)
Becomes(name, Is(_)) ==
  /\ op' = name
  /\ x' \in Elements /\ Is(x')
  /\ UNCHANGED <<y, out>>

Next ==
  \/ Becomes("fp2add", LAMBDA e : e = Plus(x, y))
  \/ Becomes("fp2sub", LAMBDA e : e = Minus(x, y))
  \/ Becomes("fp2mul_mont", LAMBDA e : e = Times(x, y))
  \/ Becomes("fp2sqr_mont", LAMBDA e : e = Times(x, x))
  \/ Becomes("fp2neg", LAMBDA e : e = Minus(Zero, x))
  \/ Becomes("fp2div2", LAMBDA e : Plus(e, e) = x)
  \/ Becomes("fp2inv_mont", LAMBDA e : IF x = Zero THEN e = Zero ELSE Times(e, x) = One)
  \/ Becomes("fp2zero", LAMBDA e : e = Zero)
  \/ Becomes("fp2correction", LAMBDA e : e = x)
  \/ op' = "fp2copy" /\ y' = x /\ UNCHANGED <<x, out>>
  \/ op' = "from_fp2mont" /\ out' = x /\ UNCHANGED <<x, y>>

Spec == Init /\ [][Next]_<<op, x, y, out>>
=============================================================================
