-------------------------------- MODULE P434 --------------------------------
(***************************************************************************)
(* The parameters of multest's SIKE library, at their full size, in digits *)
(* of 16 bits: P434.c, the constants of P434_internal.h and the chains of  *)
(* fpx.c that raise to the power (p - 3) / 4, with the tasks that put the  *)
(* parameters to use: to compute a power along a chain, and to walk the    *)
(* tree of a party's isogeny along its strategy.                           *)
(***************************************************************************)
EXTENDS Integers, Sequences, SequencesExt

RADIX == 16
NWORDS_FIELD == 28
p434_ZERO_WORDS == 13

NBITS_FIELD == 434
MAXBITS_FIELD == 448
NBITS_ORDER == 224
OALICE_BITS == 216
OBOB_BITS == 218
OBOB_EXPON == 137
MASK_ALICE == \hFF
MASK_BOB == \h01
MSG_BYTES == 16

NBITS_TO_NBYTES(nbits) == (nbits + 7) \div 8
SECRETKEY_A_BYTES == NBITS_TO_NBYTES(OALICE_BITS)
SECRETKEY_B_BYTES == NBITS_TO_NBYTES(OBOB_BITS - 1)
FP2_ENCODED_BYTES == 2 * NBITS_TO_NBYTES(NBITS_FIELD)

(* What the calls of api.h pass to each other, in bytes.                   *)
Crypto == [secret_key |-> 239, public_key |-> 196, shared |-> 16, ciphertext |-> 209]
Sidh == [secret_key |-> 27, public_key |-> 196, shared |-> 110]

MAX_Alice == 108
MAX_Bob == 137
MAX_INT_POINTS_ALICE == 7
MAX_INT_POINTS_BOB == 8

Repeated(n, e) == [k \in 1..n |-> e]
Zero28 == Repeated(28, 0)

p434 ==
  <<\hFFFF, \hFFFF, \hFFFF, \hFFFF, \hFFFF, \hFFFF, \hFFFF, \hFFFF,
    \hFFFF, \hFFFF, \hFFFF, \hFFFF, \hFFFF, \hE2FF, \h767A, \hFDC1,
    \hAEA3, \h3158, \h5C78, \h7BC6, \h2056, \h81C5, \h5FD6, \h6CFC,
    \h7344, \h2717, \h341F, \h0002>>

p434p1 ==
  <<\h0000, \h0000, \h0000, \h0000, \h0000, \h0000, \h0000, \h0000,
    \h0000, \h0000, \h0000, \h0000, \h0000, \hE300, \h767A, \hFDC1,
    \hAEA3, \h3158, \h5C78, \h7BC6, \h2056, \h81C5, \h5FD6, \h6CFC,
    \h7344, \h2717, \h341F, \h0002>>

p434x2 ==
  <<\hFFFE, \hFFFF, \hFFFF, \hFFFF, \hFFFF, \hFFFF, \hFFFF, \hFFFF,
    \hFFFF, \hFFFF, \hFFFF, \hFFFF, \hFFFF, \hC5FF, \hECF5, \hFB82,
    \h5D47, \h62B1, \hB8F0, \hF78C, \h40AC, \h038A, \hBFAD, \hD9F8,
    \hE688, \h4E2E, \h683E, \h0004>>

Alice_order ==
  <<\h0000, \h0000, \h0000, \h0000, \h0000, \h0000, \h0000, \h0000,
    \h0000, \h0000, \h0000, \h0000, \h0000, \h0100, \h0000, \h0000>>

Bob_order ==
  <<\h7AE3, \hC176, \hA3FD, \h58AE, \h7831, \hC65C, \h567B, \hC520,
    \hD681, \hFC5F, \h446C, \h1773, \h1F27, \h0234, \h0000, \h0000>>

(* Three elements of the quadratic extension for each party.               *)
A_gen ==
  <<<<<<\h45BF, \hC5C3, \hF455, \h05AD, \hAC2B, \hC767, \h5C5C, \h9193,
       \h0257, \h951F, \hE879, \hAFE4, \h27B1, \h89FA, \h92DC, \h70E7,
       \hC8CD, \hBB48, \hF526, \hF797, \h621F, \h31AF, \hDB61, \h2181,
       \hECC4, \h08B1, \h0A1C, \h0000>>,
    <<\h7788, \h7CDA, \h0EB8, \h7484, \h9D0B, \hCF9F, \hAA0E, \h2971,
       \h15D5, \hF417, \h32BD, \hCB57, \hFFAA, \h7AAC, \hE51F, \h8CD8,
       \h419F, \h0D7E, \h2473, \hA7F4, \h9E8C, \h9A17, \hEB91, \hD671,
       \h924A, \h6C5A, \hFFA2, \h0000>>>>,
   <<<<\h273B, \h88B7, \hE645, \hFEC6, \hF1C6, \h4CBB, \h26D7, \hD2A6,
       \h98C7, \hA780, \h8F07, \hF8F5, \h1B03, \h7084, \h41F4, \hE239,
       \h38DD, \h0455, \hEDA2, \h1B63, \h9215, \hFFD4, \hFEB0, \h735C,
       \h2876, \h7754, \hC4CB, \h0001>>,
    <<\hFDD6, \hC17F, \hF733, \hADB0, \hA050, \h7DA0, \hBD03, \h6AFF,
       \hE02F, \hB144, \hC43D, \h680E, \hE374, \hF524, \h5D5F, \h1E2E,
       \h2995, \h260E, \hA115, \hE2DD, \hE508, \hE2ED, \hB552, \hA6E4,
       \hB53E, \hDDF4, \h8ECC, \h0001>>>>,
   <<<<\h6C7D, \h18CD, \h4DB5, \h01BA, \h0611, \hE3CC, \h251F, \h2CB0,
       \h121B, \h49A9, \h0C69, \h259B, \h82AD, \h6D2F, \h7AC1, \h60E1,
       \hD92D, \hE175, \h1F1C, \h3AA4, \hC4F3, \h9B9B, \hBE6A, \h413F,
       \h5643, \hD8D5, \h2A81, \h0002>>,
    <<\hE54A, \hFC82, \hBC70, \hB8AD, \hDDED, \hD5FA, \hDDB0, \hEF9C,
       \h96A0, \hC800, \hC734, \h5820, \hE0E4, \hAA96, \h994B, \h7799,
       \h9AF8, \h9E37, \h6159, \h0449, \h27E2, \hF09F, \h94FB, \hDB2B,
       \hC0C6, \hC716, \hB87F, \h0000>>>>>>

B_gen ==
  <<<<<<\h48A3, \h6EDD, \h9755, \h6E54, \h1C05, \h546F, \hB501, \h2A61,
       \h887D, \hD049, \h9446, \hEB91, \h0C4F, \h9D45, \hA4A6, \h5864,
       \h0D2B, \hA649, \hF276, \hB883, \hF5B9, \h22D5, \h2870, \h22CC,
       \h551F, \h772E, \hBED4, \h0001>>,
    Zero28>>,
   <<<<\h6B8E, \h3D8B, \hA3F9, \hFAE2, \hFE1C, \h1700, \h71F5, \h4948,
       \hC27C, \h8413, \h9422, \hEF1A, \hBD62, \hAF60, \hF4A4, \h498F,
       \h7E8A, \h0826, \hD2A7, \hB00A, \h837F, \hE017, \h8294, \hF432,
       \hD8AE, \h0181, \h3408, \h0000>>,
    Zero28>>,
   <<<<\hC8E4, \hFEFD, \h34FA, \h283B, \hE647, \h77C3, \hF449, \h9208,
       \h4E9A, \h816F, \hE962, \h7DEA, \hEC9D, \hA262, \hBA8A, \h68A2,
       \hF45B, \hEA43, \hF112, \h8176, \hF504, \h2634, \h6D02, \h0210,
       \h2E37, \h50F0, \h7E8A, \h0000>>,
    <<\hCCB1, \hDA22, \hB7C1, \hB378, \h9230, \hAD1D, \h9C99, \h6D08,
       \h2369, \h813E, \h5711, \hEBE1, \h8A53, \h39D4, \hA682, \h2B35,
       \h7C93, \h3840, \h6FD1, \h445F, \hB54B, \hA3F6, \h3B29, \hBEF9,
       \h77D3, \h9103, \h73FA, \h0001>>>>>>

Montgomery_R2 ==
  <<\h9B30, \hDCD6, \h5B65, \h28E5, \h98C2, \h7687, \h7367, \hACEC,
    \h688D, \h8311, \h973F, \hAB27, \h7C0B, \h8D6C, \hC6AF, \h175C,
    \h347E, \h2DDE, \h92BF, \hABCD, \h6D9A, \hC768, \h6A61, \h69E1,
    \hD12A, \h9BCD, \h25A8, \h0000>>

Montgomery_one ==
  <<\h742C, \h0000, \h0000, \h0000, \h0000, \h0000, \h0000, \h0000,
    \h0000, \h0000, \h0000, \h0000, \h0000, \hFC00, \hF404, \hB90F,
    \hACD4, \h559F, \hA4FB, \hD801, \h410C, \h5F77, \h5454, \hE932,
    \h2EDA, \hA7BD, \hECEE, \h0000>>

strat_Alice ==
  <<48, 28, 16, 8, 4, 2, 1, 1, 2, 1, 1, 4, 2, 1, 1, 2, 1, 1, 8, 4, 2, 1, 1, 2,
    1, 1, 4, 2, 1, 1, 2, 1, 1, 13, 7, 4, 2, 1, 1, 2, 1, 1, 3, 2, 1, 1, 1, 1,
    5, 4, 2, 1, 1, 2, 1, 1, 2, 1, 1, 1, 21, 12, 7, 4, 2, 1, 1, 2, 1, 1, 3, 2,
    1, 1, 1, 1, 5, 3, 2, 1, 1, 1, 1, 2, 1, 1, 1, 9, 5, 3, 2, 1, 1, 1, 1, 2,
    1, 1, 1, 4, 2, 1, 1, 1, 2, 1, 1>>

strat_Bob ==
  <<66, 33, 17, 9, 5, 3, 2, 1, 1, 1, 1, 2, 1, 1, 1, 4, 2, 1, 1, 1, 2, 1, 1, 8,
    4, 2, 1, 1, 1, 2, 1, 1, 4, 2, 1, 1, 2, 1, 1, 16, 8, 4, 2, 1, 1, 1, 2, 1,
    1, 4, 2, 1, 1, 2, 1, 1, 8, 4, 2, 1, 1, 2, 1, 1, 4, 2, 1, 1, 2, 1, 1, 32,
    16, 8, 4, 3, 1, 1, 1, 1, 2, 1, 1, 4, 2, 1, 1, 2, 1, 1, 8, 4, 2, 1, 1, 2,
    1, 1, 4, 2, 1, 1, 2, 1, 1, 16, 8, 4, 2, 1, 1, 2, 1, 1, 4, 2, 1, 1, 2, 1,
    1, 8, 4, 2, 1, 1, 2, 1, 1, 4, 2, 1, 1, 2, 1, 1>>

(* The chains: how often each entry of the table, from the one before it,  *)
(* is multiplied by a^2, and the windows <<squarings, entry>>, where entry *)
(* 0 is a itself.                                                          *)
Chain434 ==
  [table |-> Repeated(31, 1),
   windows |->
      <<<<7, 6>>, <<10, 15>>, <<6, 4>>, <<6, 24>>, <<6, 14>>, <<6, 25>>, <<6, 8>>, <<8, 13>>,
        <<8, 31>>, <<6, 2>>, <<6, 31>>, <<7, 22>>, <<9, 3>>, <<9, 20>>, <<9, 2>>, <<7, 25>>,
        <<6, 27>>, <<6, 17>>, <<7, 11>>, <<7, 7>>, <<7, 1>>, <<9, 21>>, <<8, 10>>, <<6, 26>>,
        <<9, 31>>, <<6, 27>>, <<6, 0>>, <<7, 29>>, <<6, 7>>, <<6, 11>>, <<9, 23>>>>
      \o Repeated(35, <<6, 31>>)]

Chain503 ==
  [table |-> Repeated(15, 1),
   windows |->
      <<<<8, 0>>, <<5, 9>>, <<5, 7>>, <<6, 10>>, <<7, 1>>, <<7, 0>>, <<7, 7>>, <<7, 3>>,
        <<5, 9>>, <<7, 0>>, <<8, 11>>, <<5, 1>>, <<6, 11>>, <<5, 11>>, <<5, 6>>, <<5, 3>>,
        <<5, 7>>, <<5, 4>>, <<6, 6>>, <<12, 13>>, <<5, 9>>, <<5, 7>>, <<5, 13>>, <<6, 12>>,
        <<8, 7>>, <<5, 6>>, <<5, 15>>, <<7, 15>>, <<5, 6>>, <<5, 7>>, <<8, 9>>, <<5, 0>>,
        <<8, 5>>, <<5, 7>>, <<5, 6>>, <<8, 8>>, <<5, 0>>, <<5, 1>>, <<5, 12>>, <<5, 14>>,
        <<8, 2>>, <<6, 11>>>>
      \o Repeated(49, <<5, 15>>)]

Chain610 ==
  [table |-> Repeated(31, 1),
   windows |->
      <<<<6, 7>>, <<7, 31>>, <<7, 26>>, <<8, 29>>, <<6, 8>>, <<11, 12>>, <<8, 0>>, <<6, 1>>,
        <<8, 4>>, <<7, 17>>, <<6, 25>>, <<6, 29>>, <<9, 17>>, <<6, 5>>, <<6, 4>>, <<7, 21>>,
        <<6, 12>>, <<6, 15>>, <<7, 16>>, <<6, 1>>, <<9, 16>>, <<8, 20>>, <<6, 10>>, <<6, 6>>,
        <<7, 28>>, <<6, 29>>, <<6, 30>>, <<6, 2>>, <<9, 4>>, <<6, 3>>, <<6, 31>>, <<8, 26>>,
        <<7, 29>>, <<9, 23>>, <<8, 4>>, <<6, 23>>, <<6, 8>>, <<6, 10>>, <<6, 5>>, <<7, 21>>,
        <<11, 11>>, <<8, 27>>, <<11, 3>>>>
      \o Repeated(50, <<6, 31>>)]

EveryOdd751 == Repeated(27, 1)
Table751 ==
  <<1, 1, 1, 2>> \o Repeated(5, 1) \o <<2>> \o Repeated(11, 1)
    \o <<2>> \o Repeated(3, 1) \o <<2, 1>>
Chain751 ==
  [table |-> Table751,
   windows |->
      <<<<6, 21>>, <<6, 25>>, <<6, 12>>, <<6, 9>>, <<8, 3>>, <<6, 24>>, <<6, 3>>, <<9, 3>>,
        <<10, 16>>, <<8, 14>>, <<8, 27>>, <<8, 21>>, <<6, 12>>, <<6, 11>>, <<6, 15>>, <<6, 5>>,
        <<10, 19>>, <<6, 2>>, <<7, 23>>, <<10, 7>>, <<7, 25>>, <<6, 10>>, <<8, 19>>, <<6, 18>>,
        <<8, 0>>, <<10, 17>>, <<6, 8>>, <<6, 1>>, <<7, 13>>, <<7, 20>>, <<6, 23>>, <<6, 26>>,
        <<7, 3>>, <<6, 11>>, <<7, 23>>, <<8, 19>>, <<6, 5>>, <<6, 15>>, <<7, 14>>, <<6, 6>>,
        <<6, 24>>, <<6, 22>>, <<6, 3>>, <<7, 24>>, <<8, 13>>, <<6, 10>>, <<6, 4>>, <<7, 14>>,
        <<7, 18>>, <<8, 27>>, <<8, 6>>, <<8, 9>>, <<6, 3>>, <<6, 12>>, <<7, 21>>>>
      \o Repeated(61, <<6, 27>>)]

-----------------------------------------------------------------------------
(* The tasks.                                                              *)

Primes == [fpinv434 |-> [chain |-> Chain434, two |-> OALICE_BITS, three |-> OBOB_EXPON],
           fpinv503 |-> [chain |-> Chain503, two |-> 250, three |-> 159],
           fpinv610 |-> [chain |-> Chain610, two |-> 305, three |-> 192],
           fpinv751 |-> [chain |-> Chain751, two |-> 372, three |-> 239]]
Parties == [Alice |-> [strat |-> strat_Alice, leaves |-> MAX_Alice, points |-> MAX_INT_POINTS_ALICE, gen |-> A_gen],
            Bob |-> [strat |-> strat_Bob, leaves |-> MAX_Bob, points |-> MAX_INT_POINTS_BOB, gen |-> B_gen]]

VARIABLES
  task,      \* a chain or a party
  step,      \* windows or entries of the strategy used so far
  power,     \* the power of a that the chain has reached, in 48 digits
  pending    \* leaves below each point that the party keeps, the current last

taskVars == <<task, step, power, pending>>

Lib == INSTANCE Fpx WITH Chain <- Chain434

(* A small number in 48 digits; the power that an entry of the table is.   *)
Long(n) == <<n>> \o Repeated(47, 0)
PowerOf(table, entry) == Long(1 + 2 * FoldLeft(LAMBDA x, y : x + y, 0, SubSeq(table, 1, entry)))

TaskInit ==
  /\ task \in DOMAIN Primes \cup DOMAIN Parties
  /\ step = 0
  /\ power = Long(1)
  /\ pending = IF task \in DOMAIN Parties THEN <<Parties[task].leaves>> ELSE <<>>

(* fpinv_chain_mont, on the exponents: the squarings of a window and its   *)
(* multiplication.                                                         *)
Window ==
  /\ task \in DOMAIN Primes
  /\ LET chain == Primes[task].chain
     IN /\ step < Len(chain.windows)
        /\ \E w \in {chain.windows[step + 1]} :
             power' = Lib!mp_add(Lib!mp_shiftleft(power, w[1]), PowerOf(chain.table, w[2])).c
  /\ step' = step + 1
  /\ UNCHANGED <<task, pending>>

(* From a point with more than one leaf below it, the party computes one   *)
(* that leaves as many for later as its strategy says; at a leaf it takes  *)
(* an isogeny, and goes on at the point that it kept last.                 *)
Descend ==
  /\ task \in DOMAIN Parties /\ pending # <<>>
  /\ IF Last(pending) > 1
     THEN /\ step' = step + 1
          /\ \E k \in {Parties[task].strat[step + 1]} :
               pending' = Front(pending) \o <<k, Last(pending) - k>>
     ELSE pending' = Front(pending) /\ UNCHANGED step
  /\ UNCHANGED <<task, power>>

TaskNext == Window \/ Descend
TaskSpec == TaskInit /\ [][TaskNext]_taskVars

-----------------------------------------------------------------------------
(* Properties.                                                             *)

Number == Seq(0..65535)
Times3(n) == Lib!mp_add(Lib!mp_shiftl1(n), n).c
Tripled[n \in Number, times \in Nat] ==
  IF times = 1 THEN Times3(n) ELSE Tripled[Tripled[n, times \div 2], times - (times \div 2)]
Power3(e) == Tripled[Long(1), e]
Narrow(n, digits) == SubSeq(n, 1, digits)

(* The prime is 2^216 * 3^137 - 1, the orders of the two subgroups are the *)
(* factors of the prime plus one, and the Montgomery constants belong to   *)
(* the prime (P434.c:20-64 says so of each).                               *)
PrimeConsistent ==
  LET one == Narrow(Long(1), NWORDS_FIELD)
  IN /\ p434p1 = Lib!mp_add(p434, one).c
     /\ p434x2 = Lib!mp_shiftl1(p434)
     /\ p434p1 = Lib!mp_shiftleft(Bob_order \o Repeated(12, 0), OALICE_BITS)
     /\ Alice_order = Lib!mp_shiftleft(Narrow(Long(1), 16), OALICE_BITS)
     /\ Bob_order = Narrow(Power3(OBOB_EXPON), 16)
     /\ Lib!to_mont(one) = Montgomery_one
     /\ Lib!from_mont(Montgomery_one) = one

(* The widths are those of the numbers, the masks clear what is above a    *)
(* private key's last bit, and the sizes of what the calls pass are sums   *)
(* of the sizes of what it is encoded from (api.h:45-57): three numbers    *)
(* below the other party's order, an element, two bytes, a message.        *)
Below(n, bits) == LET top == n[(bits \div RADIX) + 1]
                  IN top < 2^(bits % RADIX) /\ \A k \in DOMAIN n : k > (bits \div RADIX) + 1 => n[k] = 0
Width(n, bits) == Below(n, bits) /\ ~Below(n, bits - 1)
Compressed(bytes) == 3 * bytes + FP2_ENCODED_BYTES + 2
SizesConsistent ==
  /\ Width(p434, NBITS_FIELD) /\ Width(Bob_order, OBOB_BITS)
  /\ MAXBITS_FIELD = NWORDS_FIELD * RADIX /\ NBITS_ORDER = 8 * SECRETKEY_B_BYTES
  /\ MASK_ALICE + 1 = 2^(OALICE_BITS - 8 * (SECRETKEY_A_BYTES - 1))
  /\ MASK_BOB + 1 = 2^(OBOB_BITS - 1 - 8 * (SECRETKEY_B_BYTES - 1))
  /\ Crypto.public_key = Compressed(SECRETKEY_B_BYTES)
  /\ Crypto.ciphertext = Compressed(SECRETKEY_A_BYTES) + MSG_BYTES
  /\ Crypto.secret_key = MSG_BYTES + SECRETKEY_A_BYTES + Crypto.public_key
  /\ Crypto.shared = MSG_BYTES
  /\ Sidh = [secret_key |-> SECRETKEY_A_BYTES, public_key |-> Crypto.public_key,
             shared |-> FP2_ENCODED_BYTES]

Element == Number \X Number

(* The three abscissas of a generator are those of two points and of their *)
(* difference on y^2 = x^3 + 6 * x^2 + x.                                  *)
Plus == [e \in Element, f \in Element |-> Lib!fp2add(e, f)]
Minus == [e \in Element, f \in Element |-> Lib!fp2sub(e, f)]
Times == [e \in Element, f \in Element |-> Lib!fp2mul_mont(e, f)]
OnCurve(p, q, r) ==
  LET one == <<Montgomery_one, Zero28>>
      two == Plus[one, one]
      four == Plus[two, two]
      pairs == Plus[Times[p, q], Times[r, Plus[p, q]]]
      triple == Times[Times[p, q], r]
      square == [e \in Element |-> Lib!fp2correction(Lib!fp2sqr_mont(e))]
      reduced == [e \in Element |-> Lib!fp2correction(e)]
  IN square[Minus[one, pairs]]
       = reduced[Times[Times[four, triple], Plus[Plus[two, four], Plus[p, Plus[q, r]]]]]

(* A chain ends with the power (p - 3) / 4, the one of which fpinv_mont    *)
(* makes the inverse: four times it and 4 are p + 1.                       *)
ChainEnds(prime) ==
  step = Len(prime.chain.windows) =>
    Lib!mp_add(Lib!mp_shiftleft(power, 2), Long(4)).c = Lib!mp_shiftleft(Power3(prime.three), prime.two)

(* A strategy leaves leaves on both sides of every point, has an entry for *)
(* every point with more than one, and needs no more points at a time than *)
(* P434_internal.h has room for.                                           *)
Inner(leaves) == FoldLeft(LAMBDA n, m : n + m - 1, 0, leaves)
StrategyFits(party) ==
  /\ \A k \in DOMAIN pending : pending[k] >= 1
  /\ Len(pending) <= party.points + 1
  /\ Inner(pending) = Len(party.strat) - step

(* The constants of P434.c, which nothing in multest computes or tests,    *)
(* fit each other and the arithmetic of fpx.c; so do the chains for all    *)
(* four primes, and the strategies.                                        *)
ParametersConsistent ==
  IF task \in DOMAIN Primes THEN ChainEnds(Primes[task])
  ELSE /\ StrategyFits(Parties[task])
       /\ step = 0 => PrimeConsistent /\ SizesConsistent
       /\ step = 0 => LET g == Parties[task].gen IN OnCurve(g[1], g[2], g[3])
=============================================================================
