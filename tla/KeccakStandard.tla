--------------------------- MODULE KeccakStandard ---------------------------
(***************************************************************************)
(* The rounds of KECCAK-p[1600, 24] as section 3 of FIPS 202 defines them, *)
(* on the set of the <<x, y, z>> whose bit of the state is 1.  Nothing     *)
(* here is tabulated: the distances of the rotations and the constants of  *)
(* the rounds are computed the way the standard computes them.             *)
(***************************************************************************)
EXTENDS Integers, Sequences, FiniteSets, SequencesExt

Cells == (0..4) \X (0..4) \X (0..63)
Bit(A, x, y, z) == IF <<x % 5, y, z % 64>> \in A THEN 1 ELSE 0

Theta(A) ==
  LET C == [c \in (0..4) \X (0..63) |-> Cardinality({y \in 0..4 : <<c[1], y, c[2]>> \in A})]
      P(x, z) == C[<<x % 5, z % 64>>]
  IN {c \in Cells : (Bit(A, c[1], c[2], c[3]) + P(c[1] + 4, c[3]) + P(c[1] + 1, c[3] + 63)) % 2 = 1}

(* The walk over the lanes: <<x, y>>, then <<y, 2x + 3y>>; the t-th of it  *)
(* is rotated by (t + 1)(t + 2) / 2.                                       *)
Walk == FoldLeft(LAMBDA w, t : LET l == w[Len(w)]
                               IN Append(w, <<l[2], (2 * l[1] + 3 * l[2]) % 5>>),
                 <<<<1, 0>>>>, [t \in 1..23 |-> t])
Distance ==
  [l \in (0..4) \X (0..4) |->
     IF l = <<0, 0>> THEN 0
     ELSE LET t == (CHOOSE i \in 1..24 : Walk[i] = l) - 1
          IN ((t + 1) * (t + 2)) \div 2]
Rho(A) == {<<c[1], c[2], (c[3] + Distance[<<c[1], c[2]>>]) % 64>> : c \in A}
Pi(A) == {<<c[2], (2 * c[1] + 3 * c[2]) % 5, c[3]>> : c \in A}
Chi(A) ==
  {c \in Cells :
     (Bit(A, c[1], c[2], c[3]) + (1 - Bit(A, c[1] + 1, c[2], c[3])) * Bit(A, c[1] + 2, c[2], c[3])) % 2 = 1}

(* The shift register of 8 bits that gives the constants, one bit a time;  *)
(* R is the set of its positions that hold a 1.                            *)
Clocked(R) ==
  LET S == {i + 1 : i \in R}
      T == IF 8 \in S THEN (S \ {0, 4, 5, 6}) \cup ({0, 4, 5, 6} \ S) ELSE S
  IN T \ {8}
ClockedTimes(R, n) == FoldLeft(LAMBDA S, i : Clocked(S), R, [i \in 1..n |-> i])

(* Every round takes seven bits of it, one for each bit 2^j - 1.           *)
AtRound == FoldLeft(LAMBDA w, t : Append(w, ClockedTimes(w[Len(w)], 7)),
                    <<{0}>>, [t \in 1..23 |-> t])
Constant(round) ==
  {2^j - 1 : j \in {i \in 0..6 : 0 \in ClockedTimes(AtRound[round + 1], i)}}
Iota(A, round) ==
  LET lane == {<<0, 0, z>> : z \in Constant(round)} IN (A \ lane) \cup (lane \ A)

Rnd(A, round) == Iota(Chi(Pi(Rho(Theta(A)))), round)
=============================================================================
