------------------------------ MODULE Fips202 ------------------------------
(***************************************************************************)
(* fips202.c, the functions that take a whole message in one call.  The    *)
(* state of the permutation is a parameter with the three functions of     *)
(* keccakf1600.c that touch it; a byte is the set of its bits.             *)
(***************************************************************************)
EXTENDS Integers, Sequences, FiniteSets, SequencesExt

CONSTANTS
  StateXORBytes(_, _, _),      \* state, data, offset
  StateExtractBytes(_, _, _),  \* state, offset, length
  StatePermute(_),
  ZeroState,                   \* 25 lanes of zeros
  SHAKE128_RATE, SHAKE256_RATE, SHA3_256_RATE, SHA3_384_RATE, SHA3_512_RATE,
  SHA3_256_BYTES, SHA3_384_BYTES, SHA3_512_BYTES  \* the loops that copy a digest

ASSUME RateAssumption ==
  /\ {SHAKE128_RATE, SHAKE256_RATE} \subseteq 8..200
  /\ {SHA3_256_RATE, SHA3_384_RATE, SHA3_512_RATE} \subseteq 1..200
  /\ SHA3_256_BYTES \in 0..SHA3_256_RATE
  /\ SHA3_384_BYTES \in 0..SHA3_384_RATE
  /\ SHA3_512_BYTES \in 0..SHA3_512_RATE

Byte(n) == {i \in 0..7 : (n \div 2^i) % 2 = 1}
Zeros(n) == [i \in 1..n |-> {}]
First(seq, n) == SubSeq(seq, 1, n)
After(seq, n) == SubSeq(seq, n + 1, Len(seq))
Times(n) == [i \in 1..n |-> i]

-----------------------------------------------------------------------------
(* The block t of the padding: the byte p at an offset of the block, where *)
(* the rest m of the message starts it, and 128 in its last byte.          *)
OverwritesLast(m, r, p) == [(m \o <<p>> \o Zeros(r - Len(m) - 1)) EXCEPT ![r] = {7}]
PadBlock(m, r, p) ==
  LET t == m \o <<p>> \o Zeros(r - Len(m) - 1)
  IN [t EXCEPT ![r] = @ \cup {7}]

keccak_absorb(s, r, m, p) ==
  LET blocks == Len(m) \div r
      block(n) == SubSeq(m, n * r - r + 1, n * r)
      full == FoldLeft(LAMBDA st, n : StatePermute(StateXORBytes(st, block(n), 0)),
                       s, Times(blocks))
  IN StateXORBytes(full, PadBlock(After(m, blocks * r), r, p), 0)

(* The state after nblocks blocks, and the bytes that have come out.       *)
keccak_squeezeblocks(nblocks, s, r) ==
  FoldLeft(LAMBDA x, n : LET st == StatePermute(x.s)
                         IN [s |-> st, h |-> x.h \o StateExtractBytes(st, 0, r)],
           [s |-> s, h |-> <<>>], Times(nblocks))

(* Full blocks first, and one more block when bytes are left over.         *)
Squeezed(outlen, s, r) ==
  LET full == keccak_squeezeblocks(outlen \div r, s, r)
      rest == outlen % r
      t == keccak_squeezeblocks(1, full.s, r).h
  IN IF rest = 0 THEN full.h ELSE full.h \o First(t, rest)

shake128_absorb(input) == keccak_absorb(ZeroState, SHAKE128_RATE, input, Byte(31))
shake256_absorb(input) == keccak_absorb(ZeroState, SHAKE256_RATE, input, Byte(31))
shake128_squeezeblocks(nblocks, s) == keccak_squeezeblocks(nblocks, s, SHAKE128_RATE)
shake256_squeezeblocks(nblocks, s) == keccak_squeezeblocks(nblocks, s, SHAKE256_RATE)
shake128(outlen, input) == Squeezed(outlen, shake128_absorb(input), SHAKE128_RATE)
shake256(outlen, input) == Squeezed(outlen, shake256_absorb(input), SHAKE256_RATE)

(* The local array s is set to zero by two of these three; in sha3_384 it  *)
(* is what the stack holds.                                                *)
sha3_256(input, stack) ==
  LET s == keccak_absorb(ZeroState, SHA3_256_RATE, input, Byte(6))
  IN First(keccak_squeezeblocks(1, s, SHA3_256_RATE).h, SHA3_256_BYTES)
sha3_384(input, stack) ==
  LET s == keccak_absorb(stack, SHA3_384_RATE, input, Byte(6))
  IN First(keccak_squeezeblocks(1, s, SHA3_384_RATE).h, SHA3_384_BYTES)
sha3_512(input, stack) ==
  LET s == keccak_absorb(ZeroState, SHA3_512_RATE, input, Byte(6))
  IN First(keccak_squeezeblocks(1, s, SHA3_512_RATE).h, SHA3_512_BYTES)

(* The customisation string has two bytes; its block is not padded.        *)
cshake128_simple_absorb(cstm, in) ==
  LET sep == <<Byte(1), Byte(168), Byte(1), Byte(0), Byte(1), Byte(16)>> \o cstm
  IN keccak_absorb(StatePermute(StateXORBytes(ZeroState, sep, 0)), SHAKE128_RATE, in, Byte(4))
cshake256_simple_absorb(cstm, in) ==
  LET sep == <<Byte(1), Byte(136), Byte(1), Byte(0), Byte(1), Byte(16)>> \o cstm
  IN keccak_absorb(StatePermute(StateXORBytes(ZeroState, sep, 0)), SHAKE256_RATE, in, Byte(4))
cshake128_simple_squeezeblocks(nblocks, s) == keccak_squeezeblocks(nblocks, s, SHAKE128_RATE)
cshake256_simple_squeezeblocks(nblocks, s) == keccak_squeezeblocks(nblocks, s, SHAKE256_RATE)
cshake128_simple(outlen, cstm, in) ==
  Squeezed(outlen, cshake128_simple_absorb(cstm, in), SHAKE128_RATE)
cshake256_simple(outlen, cstm, in) ==
  Squeezed(outlen, cshake256_simple_absorb(cstm, in), SHAKE256_RATE)
=============================================================================
