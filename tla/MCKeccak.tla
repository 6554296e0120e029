------------------------------ MODULE MCKeccak ------------------------------
(***************************************************************************)
(* The hash functions over a permutation of which nothing is known but     *)
(* that equal arguments give equal results, with rates scaled down, and    *)
(* beside them the permutation itself at its full width, which runs from   *)
(* states that the functions absorb with their real rates.                 *)
(***************************************************************************)
EXTENDS Fips202Inc, KeccakF1600, KeccakStandard

-----------------------------------------------------------------------------
(* The state of the free permutation: what was absorbed before each of its *)
(* applications, and what since the last.  A byte read from it is named    *)
(* by where it was read, and carries what is absorbed at its place.        *)
SymXORBytes(s, data, at) ==
  LET d == UNION {{<<at + i - 1, b>> : b \in data[i]} : i \in DOMAIN data}
  IN [s EXCEPT !.since = (@ \ d) \cup (d \ @)]
SymExtractBytes(s, at, n) ==
  [i \in 1..n |-> [past |-> s.past, at |-> at + i - 1, xor |-> {d \in s.since : d[1] = at + i - 1}]]
SymPermute(s) == [past |-> Append(s.past, s.since), since |-> {}]
SymZero == [past |-> <<>>, since |-> {}]
SymStacks == {SymZero, [past |-> <<{<<0, 0>>}>>, since |-> {}]}

-----------------------------------------------------------------------------
(* The permutation and the functions with their real parameters.           *)

LanesZero == [l \in Lanes |-> {}]
F == INSTANCE Fips202 WITH
       StateXORBytes <- KeccakF1600_StateXORBytes,
       StateExtractBytes <- KeccakF1600_StateExtractBytes,
       StatePermute <- KeccakF1600_StatePermute,
       ZeroState <- LanesZero,
       SHAKE128_RATE <- 168, SHAKE256_RATE <- 136, SHA3_256_RATE <- 136,
       SHA3_384_RATE <- 104, SHA3_512_RATE <- 72,
       SHA3_256_BYTES <- 32, SHA3_384_BYTES <- 48, SHA3_512_BYTES <- 64

Bytes(numbers) == [i \in DOMAIN numbers |-> Byte(numbers[i])]
Seed == Bytes(<<115, 101, 101, 100>>)

(* States about to be squeezed, and the first bytes of the published       *)
(* results: SHA3-256(""), SHAKE128("seed"), SHA3-512("seed").              *)
Vectors ==
  <<[lanes |-> F!keccak_absorb(LanesZero, 136, <<>>, Byte(6)),
     first |-> Bytes(<<167, 255, 198, 248, 191, 30, 215, 102>>)],
    [lanes |-> F!shake128_absorb(Seed), first |-> Bytes(<<37, 98, 147, 71, 88, 146, 66, 118>>)],
    [lanes |-> F!keccak_absorb(LanesZero, 72, Seed, Byte(6)), first |-> Bytes(<<249, 62, 223, 12, 174, 166, 171, 250>>)]>>

VARIABLES lanes, round, standard, vector

perm == <<lanes, round, standard, vector>>

Cubes(A) == UNION {{<<l % 5, l \div 5, z>> : z \in A[l]} : l \in Lanes}

MCInit ==
  /\ Init
  /\ round = 0 /\ vector \in 0..Len(Vectors)
  /\ vector > 0 => ctx = SymZero /\ offset = 0
  /\ lanes = IF vector = 0 THEN LanesZero ELSE Vectors[vector].lanes
  /\ standard = Cubes(lanes)

Hashes == vector = 0 /\ Next /\ UNCHANGED perm

(* An iteration of the permutation's loop; standard keeps up with it.      *)
Permutes ==
  /\ vector > 0 /\ round < NROUNDS
  /\ lanes' = TwoRounds(lanes, round)
  /\ standard' = Rnd(Rnd(standard, round), round + 1)
  /\ round' = round + 2
  /\ UNCHANGED <<vars, vector>>

MCNext == Hashes \/ Permutes
MCSpec == MCInit /\ [][MCNext]_<<vars, perm>>

-----------------------------------------------------------------------------
(* Properties.                                                             *)

(* What SP 800-185 puts before the message of cSHAKE: the rate, the empty  *)
(* name and the customisation string, filled up to a block.                *)
BytePad(rate, encoded) ==
  <<Byte(1), Byte(encoded), Byte(1), Byte(0), Byte(1), Byte(16)>> \o Customisation \o Zeros(rate - 8)
Header(fn) == CASE fn = "cshake128" -> BytePad(SHAKE128_RATE, 168)
                [] fn = "cshake256" -> BytePad(SHAKE256_RATE, 136)
                [] OTHER -> <<>>

Phase == CASE pc = "uninitialised" -> "idle"
           [] pc \in {"absorbing", "absorb"} -> "absorbing"
           [] pc \in {"squeezing", "squeeze", "blocks"} -> "squeezing"
           [] pc = "done" -> "done"

Service == INSTANCE HashService WITH
  XORBytes <- StateXORBytes, ExtractBytes <- StateExtractBytes,
  Permute <- StatePermute, Zero <- ZeroState,
  Rate <- [fn \in DOMAIN Families |-> Families[fn].r],
  Suffix <- [fn \in DOMAIN Families |-> Families[fn].p],
  DigestBytes <- [fn \in Digests |-> Families[fn].bytes],
  algorithm <- family, message <- Header(family) \o message, phase <- Phase

(* However a message is cut into calls of the absorbing functions and the  *)
(* output into calls of the squeezing ones, the bytes that come out are    *)
(* those of the sponge over the whole message: the 26th word of the        *)
(* context, its leftover bytes and the block at a boundary are never wrong.*)
ImplementsService == Service!Spec

(* The functions that hash in one call give the standard's bytes for every *)
(* length of the message and of the output; sha3_384, which does not clear *)
(* its state, is the one exception.                                        *)
Standard(fn) ==
  Service!Keccak(Header(fn) \o returned.in,
                 IF fn \in Digests THEN Families[fn].bytes ELSE Len(returned.out),
                 Families[fn].r, Families[fn].p)
OneCallIsStandard ==
  returned.fn \notin {"none", "sha3_384"} => returned.out = Standard(returned.fn)

(* fips202.c:25 says of keccak_absorb that it starts by zeroing the state. *)
(* It does not, and sha3_384 leaves it to keccak_absorb.                   *)
StateStartsAtZero ==
  returned.fn = "sha3_384" => returned.out = Standard(returned.fn)

(* The unrolled rounds are those of the standard: after every iteration of *)
(* the loop the lanes are the bits that two of its rounds give; and byte   *)
(* order, padding, rates and all 24 rounds together give the published     *)
(* results.                                                                *)
PermutationIsKeccak ==
  /\ Cubes(lanes) = standard
  /\ vector > 0 /\ round = NROUNDS =>
       KeccakF1600_StateExtractBytes(lanes, 0, 8) = Vectors[vector].first
=============================================================================
