------------------------------- MODULE MCAes -------------------------------
(***************************************************************************)
(* The two AES peripherals, each with its driver, on the known-answer      *)
(* vectors of aes-test/tv.c: a run builds one of them.  The core's         *)
(* registers after every round are compared with FIPS-197.                 *)
(***************************************************************************)
EXTENDS AesPeripheral, AesMasked, Fips197

VARIABLE job    \* the firmware: "aes-test" or "aes-masked-test"

Bits(n) == {i \in 0..7 : (n \div 2^i) % 2 = 1}
Bytes(s) == [i \in 1..16 |-> Bits(s[i])]

\* main.c:93 starts its loop at 1: vector[0] is never tried.
TestVectors == <<
  [key    |-> Bytes(<< 103, 110, 197, 129, 219, 26, 130, 113,
                  57, 56, 131, 133, 108, 178, 255, 238 >>),
   plain  |-> Bytes(<< 213, 65, 21, 115, 24, 124, 189, 221,
                  117, 180, 71, 63, 10, 120, 119, 231 >>),
   cipher |-> Bytes(<< 64, 39, 103, 159, 127, 99, 35, 194,
                  22, 127, 105, 208, 138, 39, 76, 21 >>)],
  [key    |-> Bytes(<< 55, 222, 207, 80, 71, 156, 28, 193,
                  12, 245, 95, 3, 221, 133, 151, 217 >>),
   plain  |-> Bytes(<< 71, 77, 115, 49, 141, 55, 65, 250,
                  222, 9, 59, 65, 99, 11, 97, 73 >>),
   cipher |-> Bytes(<< 11, 137, 131, 86, 132, 12, 37, 46,
                  179, 8, 147, 243, 144, 253, 110, 228 >>)],
  [key    |-> Bytes(<< 137, 170, 188, 2, 3, 83, 7, 154,
                  75, 1, 10, 95, 109, 48, 115, 62 >>),
   plain  |-> Bytes(<< 45, 47, 140, 115, 254, 37, 158, 191,
                  67, 148, 207, 205, 163, 84, 206, 86 >>),
   cipher |-> Bytes(<< 13, 178, 209, 33, 36, 83, 188, 187,
                  92, 7, 161, 152, 162, 34, 182, 192 >>)],
  [key    |-> Bytes(<< 202, 234, 19, 214, 178, 254, 196, 232,
                  78, 159, 225, 156, 159, 244, 76, 168 >>),
   plain  |-> Bytes(<< 28, 41, 150, 230, 179, 251, 239, 137,
                  236, 228, 192, 188, 141, 99, 52, 180 >>),
   cipher |-> Bytes(<< 250, 124, 169, 189, 86, 61, 79, 154,
                  118, 35, 168, 23, 27, 95, 153, 114 >>)] >>

\* aes-masked-test tries all five.
AllVectors == <<
  [key    |-> Bytes(<< 157, 78, 57, 4, 238, 112, 29, 224,
                  139, 237, 130, 240, 142, 121, 121, 48 >>),
   plain  |-> Bytes(<< 6, 210, 12, 245, 113, 19, 206, 84,
                  106, 164, 121, 129, 116, 95, 220, 216 >>),
   cipher |-> Bytes(<< 101, 12, 51, 113, 51, 27, 27, 243,
                  166, 116, 28, 123, 181, 235, 85, 13 >>)] >> \o TestVectors

----------------------------------------------------------------------------
(* The standard on the vectors.                                            *)

BlockKeys == Evaluated([b \in DOMAIN Blocks |-> RoundKeys(Blocks[b].key)])
BlockTexts == Evaluated([b \in DOMAIN Blocks |-> Texts(Blocks[b].plain, RoundKeys(Blocks[b].key))])

\* The vectors are AES.
IsAes(vector) == Cells(vector.cipher) = Ciphertext(vector.plain, vector.key)
ASSUME VectorsAssumption ==
  /\ \A b \in DOMAIN Blocks : IsAes(Blocks[b])
  /\ \A b \in DOMAIN MaskedBlocks : IsAes(MaskedBlocks[b])

\* The 21-cycle schedule of AES.v, in which the key of a round is computed while
\* the one before is still in use, goes through the rounds of the standard: the
\* state is the standard's at the start of every round, and the first word of the
\* key register is the round key's; at the end the state is the ciphertext.
RoundsMatchStandard ==
  /\ core.fsm = "Round" /\ core.control = 0 =>
       /\ core.state = BlockTexts[block][core.round - 1]
       /\ \A n \in 0..3 : core.key[n] = BlockKeys[block][core.round - 1][n]
  /\ core.fsm = "Done" => core.state = AddKey(BlockTexts[block][10], BlockKeys[block][10])

----------------------------------------------------------------------------
(* The two systems.                                                        *)

bothVars == << vars, job, maskedVars >>

JobsInit == Init /\ MaskedInit /\ job \in {"aes-test", "aes-masked-test"}

JobsNext ==
  \/ job = "aes-test" /\ Next /\ UNCHANGED << job, maskedVars >>
  \/ job = "aes-masked-test" /\ MaskedNext /\ UNCHANGED << job, vars >>

\* The clock runs and the CPU gets to its next access.
DriverSteps == job = "aes-test" /\ (Start \/ Setup \/ Transfer)
MaskedDriverSteps == job = "aes-masked-test" /\ (MaskedStart \/ MaskedSetup \/ MaskedTransfer)

JobsSpec ==
  /\ JobsInit /\ [][JobsNext]_bothVars
  /\ WF_driver(DriverSteps) /\ WF_maskedDriver(MaskedDriverSteps)

\* The polling loops of both drivers end: every block is encrypted and fetched.
DriversFinish ==
  /\ job = "aes-test" ~> block = Len(Blocks) + 1
  /\ job = "aes-masked-test" ~> mblock = Len(MaskedBlocks) + 1

=============================================================================
