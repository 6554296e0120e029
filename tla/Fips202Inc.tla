----------------------------- MODULE Fips202Inc -----------------------------
(***************************************************************************)
(* fips202.c as its callers use it: the functions that hash in one call,   *)
(* those that absorb in one call and squeeze whole blocks in others, and   *)
(* the incremental ones, which take and give any number of bytes.  The     *)
(* loops of the incremental calls are steps, so that what they keep can be *)
(* stated.  The calls come in the order that the comments demand: init,    *)
(* absorb any number of times, finalize, squeeze any number of times.      *)
(***************************************************************************)
EXTENDS Fips202

CONSTANTS
  MaxMessage, MaxOutput,  \* bounds: bytes absorbed and squeezed in all
  Stacks                  \* what the stack may hold where a state is declared

(* The families of functions: rate, the byte p of the padding, digest.     *)
shake128_inc == [r |-> SHAKE128_RATE, p |-> Byte(31)]
shake256_inc == [r |-> SHAKE256_RATE, p |-> Byte(31)]
sha3_256_inc == [r |-> SHA3_256_RATE, p |-> Byte(6), bytes |-> SHA3_256_BYTES]
sha3_384_inc == [r |-> SHA3_384_RATE, p |-> Byte(6), bytes |-> SHA3_384_BYTES]
sha3_512_inc == [r |-> SHA3_512_RATE, p |-> Byte(6), bytes |-> SHA3_512_BYTES]
Families ==
  [shake128 |-> shake128_inc, shake256 |-> shake256_inc,
   sha3_256 |-> sha3_256_inc, sha3_384 |-> sha3_384_inc, sha3_512 |-> sha3_512_inc,
   cshake128 |-> [r |-> SHAKE128_RATE, p |-> Byte(4)],
   cshake256 |-> [r |-> SHAKE256_RATE, p |-> Byte(4)]]
Shakes == {"shake128", "shake256"}
Digests == {"sha3_256", "sha3_384", "sha3_512"}
CShakes == {"cshake128", "cshake256"}

VARIABLES
  family,   \* whose context it is: the functions that were called for it
  ctx,      \* the first 25 words of the context
  offset,   \* its 26th: bytes absorbed since the last permutation, or left to squeeze
  pc,       \* between two calls, or the loop that is running
  m,        \* what the loop of absorb has not consumed
  outlen,   \* what the loop of squeeze has not produced
  message,  \* all that was absorbed since init
  output,   \* all that was squeezed since finalize, or the digest
  returned  \* the last call that hashed a whole message

vars == <<family, ctx, offset, pc, m, outlen, message, output, returned>>

r == Families[family].r

(* The n-th byte of a message; no two are the same.                        *)
MessageByte(n) == {7 + n}
NextBytes(n) == [i \in 1..n |-> MessageByte(Len(message) + i)]
Text(n) == [i \in 1..n |-> MessageByte(i)]

None == [fn |-> "none", in |-> <<>>, out |-> <<>>]

-----------------------------------------------------------------------------
Init ==
  /\ family = "none"
  /\ ctx \in Stacks /\ offset \in 0..1 /\ pc = "uninitialised"
  /\ m = <<>> /\ outlen = 0 /\ message = <<>> /\ output = <<>> /\ returned = None

(* keccak_inc_init.                                                        *)
IncInit ==
  /\ pc = "uninitialised" /\ returned = None
  /\ family' \in Shakes \cup Digests
  /\ ctx' = ZeroState /\ offset' = 0 /\ pc' = "absorbing"
  /\ UNCHANGED <<m, outlen, message, output, returned>>

(* keccak_inc_absorb is called with the next n bytes.                      *)
IncAbsorb ==
  /\ pc = "absorbing"
  /\ \E n \in 0..(MaxMessage - Len(message)) :
       m' = NextBytes(n) /\ message' = message \o NextBytes(n)
  /\ pc' = "absorb"
  /\ UNCHANGED <<family, ctx, offset, outlen, output, returned>>

(* Its loop: the rest of a block fills up.                                 *)
BlockFilled == Len(m) + offset >= r
AbsorbBlock ==
  /\ pc = "absorb" /\ BlockFilled
  /\ ctx' = StatePermute(StateXORBytes(ctx, First(m, r - offset), offset))
  /\ m' = After(m, r - offset)
  /\ offset' = 0
  /\ UNCHANGED <<family, pc, outlen, message, output, returned>>

(* What follows the loop.                                                  *)
AbsorbRest ==
  /\ pc = "absorb" /\ ~BlockFilled
  /\ ctx' = StateXORBytes(ctx, m, offset)
  /\ offset' = offset + Len(m)
  /\ m' = <<>> /\ pc' = "absorbing"
  /\ UNCHANGED <<family, outlen, message, output, returned>>

(* keccak_inc_finalize: the padding goes where the message ended.          *)
Padded == StateXORBytes(ctx, PadBlock(Zeros(offset), r, Families[family].p), 0)

Finalize ==
  /\ pc = "absorbing" /\ family \in Shakes
  /\ ctx' = Padded /\ offset' = 0 /\ pc' = "squeezing"
  /\ UNCHANGED <<family, m, outlen, message, output, returned>>

(* sha3_256_inc_finalize and its likes squeeze the digest at once.         *)
FinalizeDigest ==
  /\ pc = "absorbing" /\ family \in Digests
  /\ LET t == keccak_squeezeblocks(1, Padded, r)
     IN ctx' = t.s /\ output' = First(t.h, Families[family].bytes)
  /\ offset' = 0 /\ pc' = "done"
  /\ UNCHANGED <<family, m, outlen, message, returned>>

(* keccak_inc_squeeze is called for n bytes: first those of the last block *)
(* that were not taken.                                                    *)
Leftover(n) == IF n < offset THEN n ELSE offset
IncSqueeze ==
  /\ pc = "squeezing"
  /\ \E n \in 0..(MaxOutput - Len(output)) :
       /\ output' = output \o StateExtractBytes(ctx, r - offset, Leftover(n))
       /\ outlen' = n - Leftover(n)
       /\ offset' = offset - Leftover(n)
  /\ pc' = "squeeze"
  /\ UNCHANGED <<family, ctx, m, message, returned>>

(* Its loop: a block, of which the caller may want the first bytes only.   *)
Taken == IF outlen < r THEN outlen ELSE r
KeepsNothing == 0
KeptBack == r - Taken
SqueezeBlock ==
  /\ pc = "squeeze" /\ outlen > 0
  /\ ctx' = StatePermute(ctx)
  /\ output' = output \o StateExtractBytes(ctx', 0, Taken)
  /\ outlen' = outlen - Taken
  /\ offset' = KeptBack
  /\ UNCHANGED <<family, pc, m, message, returned>>

SqueezeReturns ==
  /\ pc = "squeeze" /\ outlen = 0
  /\ pc' = "squeezing"
  /\ UNCHANGED <<family, ctx, offset, m, outlen, message, output, returned>>

(* shake128_absorb, cshake128_simple_absorb and their likes are called for *)
(* a whole message, and the squeezeblocks functions for n blocks of output.*)
Customisation == <<{1}, {0, 2}>>

AbsorbedState(fn, input) ==
  CASE fn = "shake128"  -> shake128_absorb(input)
    [] fn = "shake256"  -> shake256_absorb(input)
    [] fn = "cshake128" -> cshake128_simple_absorb(Customisation, input)
    [] fn = "cshake256" -> cshake256_simple_absorb(Customisation, input)

SqueezedBlocks(fn, n) ==
  CASE fn = "shake128"  -> shake128_squeezeblocks(n, ctx)
    [] fn = "shake256"  -> shake256_squeezeblocks(n, ctx)
    [] fn = "cshake128" -> cshake128_simple_squeezeblocks(n, ctx)
    [] fn = "cshake256" -> cshake256_simple_squeezeblocks(n, ctx)

AbsorbAll ==
  /\ pc = "uninitialised" /\ returned = None
  /\ family' \in Shakes \cup CShakes
  /\ \E n \in 0..MaxMessage : message' = Text(n)
  /\ ctx' = AbsorbedState(family', message')
  /\ pc' = "blocks"
  /\ UNCHANGED <<offset, m, outlen, output, returned>>

SqueezeBlocks ==
  /\ pc = "blocks"
  /\ \E n \in 0..((MaxOutput - Len(output)) \div r) :
       LET t == SqueezedBlocks(family, n)
       IN ctx' = t.s /\ output' = output \o t.h
  /\ UNCHANGED <<family, offset, pc, m, outlen, message, returned>>

(* A whole message is hashed in one call; the context plays no part and    *)
(* nothing is kept of the call, so that one is enough and nothing follows. *)
Hash(fn, input, n, stack) ==
  CASE fn = "shake128"  -> shake128(n, input)
    [] fn = "shake256"  -> shake256(n, input)
    [] fn = "cshake128" -> cshake128_simple(n, Customisation, input)
    [] fn = "cshake256" -> cshake256_simple(n, Customisation, input)
    [] fn = "sha3_256"  -> sha3_256(input, stack)
    [] fn = "sha3_384"  -> sha3_384(input, stack)
    [] fn = "sha3_512"  -> sha3_512(input, stack)

HashOnce ==
  /\ pc = "uninitialised" /\ returned = None
  /\ \E fn \in DOMAIN Families, i \in 0..MaxMessage, n \in 0..MaxOutput, stack \in Stacks :
       returned' = [fn |-> fn, in |-> Text(i), out |-> Hash(fn, Text(i), n, stack)]
  /\ UNCHANGED <<family, ctx, offset, pc, m, outlen, message, output>>

Next ==
  \/ IncInit \/ IncAbsorb \/ AbsorbBlock \/ AbsorbRest
  \/ Finalize \/ FinalizeDigest
  \/ IncSqueeze \/ SqueezeBlock \/ SqueezeReturns
  \/ AbsorbAll \/ SqueezeBlocks
  \/ HashOnce

Spec == Init /\ [][Next]_vars
=============================================================================
