------------------------------- MODULE Comba -------------------------------
(***************************************************************************)
(* CombaPlugin: the multiplier of the HSM's CPU and its wide accumulator,  *)
(* with the programs of multest that multiply long numbers column by       *)
(* column.  All effects are in the write-back stage, in program order, so  *)
(* an instruction is one step.  Words have 2 * HalfBits bits (32 in the    *)
(* code) and the accumulator GuardBits more than two words (8 in the code).*)
(***************************************************************************)
EXTENDS Integers, Sequences

CONSTANTS
  HalfBits,   \* half the width of a register
  GuardBits,  \* width of the accumulator beyond two words
  Words,      \* register values tried for instructions outside the programs
  Digits,     \* words tried in the operands of the programs
  MaxOthers   \* bound: instructions but shifts between two programs

SIZE == 4     \* words of an operand

Power2[n \in 0..(HalfBits + GuardBits)] == IF n = 0 THEN 1 ELSE 2 * Power2[n - 1]
H == Power2[HalfBits]
B == H * H
Guard == Power2[GuardBits]
Word == 0..(B - 1)

(* The guard bits count the products of a column.                          *)
ASSUME WidthAssumption ==
  /\ HalfBits \in Nat \ {0} /\ GuardBits \in Nat /\ Guard >= SIZE
  /\ Words \cup Digits \subseteq Word

MulOps    == {"MUL", "MULH", "MULHSU", "MULHU"}
MulAccOps == {"MULACC_SHIFT", "MULACC_MUL", "MULACC_ADD", "MULACC_SUB"}

VARIABLES
  acc,      \* the accumulator
  retired,  \* the last instruction of the unit, its operands and its result
  others,   \* number of those since the last program
  program, pc,  \* which program runs, its next instruction
  a, b, c   \* operands and result of the program, as arrays of words

vars == <<acc, retired, others, program, pc, a, b, c>>

-----------------------------------------------------------------------------
(* The product of two words from those of their halves.                    *)

(* The middle sum has one bit more than a word.                            *)
NarrowMiddle(lh, hl) == (lh + hl) % B
Middle(lh, hl) == (lh + hl) % (2 * B)

Product(x, y) ==
  LET ll == (x % H) * (y % H)
      lh == (x % H) * (y \div H)
      hl == (x \div H) * (y % H)
      hh == (x \div H) * (y \div H)
  IN ((hh * H + ll \div H + Middle(lh, hl)) % (B * H)) * H + (ll % H)

Not(x) == B - 1 - x
Msb(x) == x >= B \div 2

(* The high word, corrected for the signs of the operands.                 *)
CorrectsByOne(op, x, y) ==
  LET p == IF op \in {"MULH", "MULHSU"} /\ Msb(x) THEN y ELSE 0
      q == IF op = "MULH" /\ Msb(y) THEN x ELSE 0
  IN (Product(x, y) \div B + Not(p) + (Not(q) + 1)) % B
HighWord(op, x, y) ==
  LET p == IF op \in {"MULH", "MULHSU"} /\ Msb(x) THEN y ELSE 0
      q == IF op = "MULH" /\ Msb(y) THEN x ELSE 0
  IN (Product(x, y) \div B + Not(p) + (Not(q) + 2)) % B

(* The multiplier for operands of twice the width of three multipliers,    *)
(* of which one gets the signed differences of the halves.                 *)
Abs(n) == IF n < 0 THEN -n ELSE n
KaraMult(half, x, y) ==
  LET alh == (x % half) - (x \div half)
      bhl == (y \div half) - (y % half)
      rh == (x \div half) * (y \div half)
      rl == (x % half) * (y % half)
      rm == Abs(alh) * Abs(bhl)
      middle == IF (alh < 0) # (bhl < 0) THEN (rh + rl - rm) % (2 * (half * half)) ELSE rh + rl + rm
  IN (rh * (half * half) + middle * half + rl) % ((half * half) * (half * half))

(* What an instruction adds to the accumulator.                            *)
OnesComplement(op, x, y) ==
  CASE op = "MULACC_MUL" -> Product(x, y)
    [] op = "MULACC_ADD" -> y * B + x
    [] op = "MULACC_SUB" -> Not(y) * B + Not(x)
    [] OTHER             -> 0
InValue(op, x, y) ==
  CASE op = "MULACC_MUL" -> Product(x, y)
    [] op = "MULACC_ADD" -> y * B + x
    [] op = "MULACC_SUB" -> (Not(y) * B + Not(x) + 1) % (B * B)
    [] OTHER             -> 0

(* The adder, as wide as the accumulator.                                  *)
Sum(op, x, y) == (acc + InValue(op, x, y)) % (B * B * Guard)

(* What an instruction writes to its destination register.                 *)
Result(op, x, y) ==
  CASE op = "MUL"              -> Product(x, y) % B
    [] op = "MULACC_SHIFT"     -> (Sum(op, x, y) % B) \div Power2[x % HalfBits]
    [] op \in MulOps \ {"MUL"} -> HighWord(op, x, y)
    [] OTHER                   -> 0

Execute(op, x, y) ==
  /\ acc' = CASE op \in MulOps        -> acc
              [] op = "MULACC_SHIFT" -> Sum(op, x, y) \div B
              [] OTHER               -> Sum(op, x, y)
  /\ retired' = [op |-> op, x |-> x, y |-> y, rd |-> Result(op, x, y)]

-----------------------------------------------------------------------------
(* The programs.                                                           *)

Mul(i, j) == [op |-> "MULACC_MUL", i |-> i, j |-> j]
Store(k)  == [op |-> "MULACC_SHIFT", to |-> {k}]
Clear     == [op |-> "MULACC_SHIFT", to |-> {}]

(* The unrolled function, which clears two words first.                    *)
Unrolled ==
  <<Mul(0, 0), Store(0), Mul(1, 0), Mul(0, 1), Store(1),
    Mul(0, 2), Mul(1, 1), Mul(2, 0), Store(2),
    Mul(0, 3), Mul(1, 2), Mul(2, 1), Mul(3, 0), Store(3),
    Mul(1, 3), Mul(2, 2), Mul(3, 1), Store(4),
    Mul(2, 3), Mul(3, 2), Store(5), Mul(3, 3), Store(6), Store(7)>>
ClearsOnce == <<Clear>> \o Unrolled
MulComba   == <<Clear, Clear>> \o Unrolled

(* The loops of main, which clear one word: the rows of the lower columns  *)
(* start at 0, those of the upper ones where the other operand ends.       *)
Column(k) ==
  LET first == IF k < SIZE THEN 0 ELSE k - SIZE + 1
      last  == IF k < SIZE THEN k ELSE SIZE - 1
  IN [n \in 1..(last - first + 2) |->
        IF n = last - first + 2 THEN Store(k) ELSE Mul(first + n - 1, k - (first + n - 1))]
MainLoops ==
  <<Clear>> \o Column(0) \o Column(1) \o Column(2) \o Column(3)
            \o Column(4) \o Column(5) \o Column(6) \o Column(7)

Programs == [mul_comba |-> MulComba, main |-> MainLoops]
ClearedWords == [mul_comba |-> 2, main |-> 1]
Cleared(p) == IF ClearedWords[p] = 1 THEN B ELSE B * B

-----------------------------------------------------------------------------
Nop == [op |-> "MUL", x |-> 0, y |-> 0, rd |-> 0]
Zeros(n) == [k \in 0..(n - 1) |-> 0]

Init ==
  /\ acc = 0 /\ retired = Nop /\ others = 0
  /\ program = "none" /\ pc = 0
  /\ a = Zeros(SIZE) /\ b = Zeros(SIZE) /\ c = Zeros(2 * SIZE)

(* Code outside the programs uses any instruction of the unit.             *)
Other ==
  /\ program = "none"
  /\ \E op \in MulOps \cup MulAccOps, x, y \in Words : Execute(op, x, y)
  /\ others' = IF retired'.op = "MULACC_SHIFT" THEN others ELSE others + 1
  /\ others' <= MaxOthers
  /\ UNCHANGED <<program, pc, a, b, c>>

(* A program is called while the accumulator holds no more than the words  *)
(* that it clears.                                                         *)
Call ==
  /\ program = "none"
  /\ \E p \in DOMAIN Programs : acc < Cleared(p) /\ program' = p
  /\ pc' = 1
  /\ a' \in [0..(SIZE - 1) -> Digits] /\ b' \in [0..(SIZE - 1) -> Digits]
  /\ retired' = Nop /\ others' = 0
  /\ UNCHANGED <<acc, c>>

Running == program # "none" /\ pc <= Len(Programs[program])

Step ==
  /\ Running
  /\ LET i == Programs[program][pc]
     IN IF i.op = "MULACC_MUL"
        THEN Execute("MULACC_MUL", a[i.i], b[i.j]) /\ UNCHANGED c
        ELSE /\ Execute("MULACC_SHIFT", 0, 0)
             /\ c' = [k \in DOMAIN c |-> IF k \in i.to THEN retired'.rd ELSE c[k]]
  /\ pc' = pc + 1
  /\ UNCHANGED <<others, program, a, b>>

Return ==
  /\ program # "none" /\ ~Running
  /\ program' = "none" /\ pc' = 0
  /\ a' = Zeros(SIZE) /\ b' = Zeros(SIZE) /\ c' = Zeros(2 * SIZE)
  /\ UNCHANGED <<acc, retired, others>>

Next == Other \/ Call \/ Step \/ Return

Spec == Init /\ [][Next]_vars

-----------------------------------------------------------------------------
(* Properties.                                                             *)

Signed(x) == IF x < B \div 2 THEN x ELSE x - B

(* MUL, MULH, MULHSU and MULHU write what the RISC-V manual says: a word   *)
(* of the product of the operands, signed or not; CombaPlugin multiplies   *)
(* unsigned halves and corrects the high word.  KaraMult, which no design  *)
(* uses, multiplies unsigned numbers of two words.                         *)
MultipliesAsRiscV ==
  LET x == retired.x
      y == retired.y
      word == CASE retired.op = "MUL"    -> x * y
                [] retired.op = "MULH"   -> (Signed(x) * Signed(y)) \div B
                [] retired.op = "MULHSU" -> (Signed(x) * y) \div B
                [] OTHER                 -> (x * y) \div B
  IN /\ retired.op \in MulOps => retired.rd = word % B
     /\ \A u, v \in {x * B + y, y * B + x, x * B + x, y * B + y} : KaraMult(B, u, v) = u * v

(* MULACC_SUB ("that's subtraction") subtracts, as far as the two words    *)
(* that the next two shifts return; the guard bits get a carry instead.    *)
SubtractsTwoWords ==
  [][\A x, y \in Words :
        Execute("MULACC_SUB", x, y) => (acc' + y * B + x - acc) % (B * B) = 0]_vars

(* Multiplication by columns: the sum of the products that P names of a    *)
(* column, and what is carried into it.                                    *)
Columns == 0..(2 * SIZE - 1)
Term(P, i, j) == IF <<i, j>> \in P THEN a[i] * b[j] ELSE 0
SumOf(P, k) == Term(P, 0, k) + Term(P, 1, k - 1) + Term(P, 2, k - 2) + Term(P, 3, k - 3)
Rows == 0..(SIZE - 1)
AllOf(k) == SumOf(Rows \X Rows, k)
Carry[k \in 0..(2 * SIZE)] == IF k = 0 THEN 0 ELSE (Carry[k - 1] + AllOf(k - 1)) \div B
Digit(k) == (Carry[k] + AllOf(k)) % B

Before == {Programs[program][n] : n \in 1..(pc - 1)}
Stored == {k \in Columns : Store(k) \in Before}
Multiplied == {p \in Rows \X Rows : Mul(p[1], p[2]) \in Before}

(* Between any two instructions of a program, the words stored are the     *)
(* first of the product, and the accumulator is the carry and the products *)
(* of the next column so far: none overflows it, no carry is lost, nothing *)
(* of what it held before the call is left.                                *)
ColumnsExact ==
  program # "none" /\ pc > ClearedWords[program] =>
    \E k \in 0..(2 * SIZE) :
      /\ Stored = 0..(k - 1) /\ \A n \in Stored : c[n] = Digit(n)
      /\ acc = Carry[k] + SumOf(Multiplied, k)

(* Both programs return the product of the operands, every word of it, and *)
(* leave the accumulator empty for the next one.                           *)
ReturnsProduct ==
  program # "none" /\ ~Running => acc = 0 /\ \A k \in Columns : c[k] = Digit(k)
=============================================================================
