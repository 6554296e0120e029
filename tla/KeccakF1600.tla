---------------------------- MODULE KeccakF1600 ----------------------------
(***************************************************************************)
(* keccakf1600.c: the permutation of aes-masked-test's hash functions and  *)
(* the access to its state by bytes.  A lane is the set of its bits that   *)
(* are 1, a byte a set of numbers below 8, and the state 25 lanes.         *)
(***************************************************************************)
EXTENDS Naturals, Sequences, FiniteSets, SequencesExt

NROUNDS == 24
Bits    == 0..63
Lanes   == 0..24

Xor(a, b) == (a \ b) \cup (b \ a)
ROL(a, offset) == {(i + offset) % 64 : i \in a}
AndNot(a, b) == b \ a   \* (~a) & b

-----------------------------------------------------------------------------
(* Bytes of the state: eight per lane, the lowest first.                   *)

HighestFirst(state, offset, length) ==
  [i \in 1..length |->
     LET n == offset + i - 1
     IN {b \in 0..7 : 8 * (7 - (n % 8)) + b \in state[n \div 8]}]
KeccakF1600_StateExtractBytes(state, offset, length) ==
  [i \in 1..length |->
     LET n == offset + i - 1
     IN {b \in 0..7 : 8 * (n % 8) + b \in state[n \div 8]}]

KeccakF1600_StateXORBytes(state, data, offset) ==
  LET flipped(l) ==
        {b \in Bits : LET n == 8 * l + (b \div 8) - offset
                      IN n \in 0..(Len(data) - 1) /\ b % 8 \in data[n + 1]}
  IN [l \in Lanes |-> Xor(state[l], flipped(l))]

-----------------------------------------------------------------------------
(* The permutation.  Lane 5 * r + c is the one of row r and column c, in   *)
(* the code the letters b, g, k, m, s and a, e, i, o, u.                   *)

KeccakF_RoundConstants ==
  <<{0}, {1, 7, 15}, {1, 3, 7, 15, 63}, {15, 31, 63},
    {0, 1, 3, 7, 15}, {0, 31}, {0, 7, 15, 31, 63}, {0, 3, 15, 63},
    {1, 3, 7}, {3, 7}, {0, 3, 15, 31}, {1, 3, 31},
    {0, 1, 3, 7, 15, 31}, {0, 1, 3, 7, 63}, {0, 3, 7, 15, 63}, {0, 1, 15, 63},
    {1, 15, 63}, {7, 63}, {1, 3, 15}, {1, 3, 31, 63},
    {0, 7, 15, 31, 63}, {7, 15, 63}, {0, 31}, {3, 15, 31, 63}>>

(* BCa to BCu: the parities of the columns.                                *)
Parities(A) ==
  [x \in 0..4 |-> Xor(A[x], Xor(A[x + 5], Xor(A[x + 10], Xor(A[x + 15], A[x + 20]))))]

(* Da to Du: what each lane of a column is changed by.                     *)
Effects(BC) == [x \in 0..4 |-> Xor(BC[(x + 4) % 5], ROL(BC[(x + 1) % 5], 1))]

(* Which lanes a row of the result is made from, each rotated by how much. *)
(* The loop is unrolled: the first table is the half from A to E, the      *)
(* second the one from E to A.                                             *)
SourcesOfE ==
  <<<<0, 0>>, <<6, 44>>, <<12, 43>>, <<18, 21>>, <<24, 14>>,
    <<3, 28>>, <<9, 20>>, <<10, 3>>, <<16, 45>>, <<22, 61>>,
    <<1, 1>>, <<7, 6>>, <<13, 25>>, <<19, 8>>, <<20, 18>>,
    <<4, 27>>, <<5, 36>>, <<11, 10>>, <<17, 15>>, <<23, 56>>,
    <<2, 62>>, <<8, 55>>, <<14, 39>>, <<15, 41>>, <<21, 2>>>>
SwappedRotations == [SourcesOfE EXCEPT ![19] = <<17, 56>>, ![20] = <<23, 15>>]
SourcesOfA ==
  <<<<0, 0>>, <<6, 44>>, <<12, 43>>, <<18, 21>>, <<24, 14>>,
    <<3, 28>>, <<9, 20>>, <<10, 3>>, <<16, 45>>, <<22, 61>>,
    <<1, 1>>, <<7, 6>>, <<13, 25>>, <<19, 8>>, <<20, 18>>,
    <<4, 27>>, <<5, 36>>, <<11, 10>>, <<17, 15>>, <<23, 56>>,
    <<2, 62>>, <<8, 55>>, <<14, 39>>, <<15, 41>>, <<21, 2>>>>

(* Half of the loop's body.                                                *)
RoundFrom(A, sources, constant) ==
  LET D == Effects(Parities(A))
      moved == [n \in Lanes |-> LET from == sources[n + 1][1]
                                IN ROL(Xor(A[from], D[from % 5]), sources[n + 1][2])]
      BC(r, x) == moved[5 * r + (x % 5)]
      chi == [n \in Lanes |-> LET r == n \div 5
                                  x == n % 5
                              IN Xor(BC(r, x), AndNot(BC(r, x + 1), BC(r, x + 2)))]
  IN [chi EXCEPT ![0] = Xor(@, constant)]

(* The body of the loop.                                                   *)
TwoRounds(A, round) ==
  RoundFrom(RoundFrom(A, SourcesOfE, KeccakF_RoundConstants[round + 1]),
            SourcesOfA, KeccakF_RoundConstants[round + 2])

KeccakF1600_StatePermute(state) ==
  FoldLeft(LAMBDA A, n : TwoRounds(A, 2 * n - 2), state, [n \in 1..(NROUNDS \div 2) |-> n])
=============================================================================
