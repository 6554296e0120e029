----------------------------- MODULE HashService -----------------------------
(***************************************************************************)
(* What the hash functions promise: FIPS 202's sponge over any permutation *)
(* (its section 4 and appendix B), and a service that absorbs a message in *)
(* pieces and then gives out the digest, or as many bytes of the stream as *)
(* it is asked for.                                                        *)
(***************************************************************************)
EXTENDS Integers, Sequences, SequencesExt

CONSTANTS
  XORBytes(_, _, _), ExtractBytes(_, _, _), Permute(_), Zero,
  Rate,        \* of each algorithm, in bytes
  Suffix,      \* of each algorithm: the bits between message and padding, with its first 1
  DigestBytes  \* of each algorithm with a fixed length

VARIABLES algorithm, message, output, phase

vars == <<algorithm, message, output, phase>>

FinalBit == {7}
NoBits(n) == [i \in 1..n |-> {}]

(* pad10*1 for a message of n bytes, to a multiple of rate.                *)
Pad(n, rate, suffix) ==
  LET free == rate - (n % rate)
  IN IF free = 1 THEN <<suffix \cup FinalBit>>
     ELSE <<suffix>> \o NoBits(free - 2) \o <<FinalBit>>

(* Every block is added to the state, and the state permuted after it.     *)
Absorbed(text, rate) ==
  FoldLeft(LAMBDA s, n : Permute(XORBytes(s, SubSeq(text, (n - 1) * rate + 1, n * rate), 0)),
           Zero, [n \in 1..(Len(text) \div rate) |-> n])

RECURSIVE Stream(_, _, _)
Stream(s, n, rate) ==
  IF n <= rate THEN ExtractBytes(s, 0, n)
  ELSE ExtractBytes(s, 0, rate) \o Stream(Permute(s), n - rate, rate)

(* KECCAK[c], the first n bytes of its output.                             *)
Keccak(text, n, rate, suffix) ==
  Stream(Absorbed(text \o Pad(Len(text), rate, suffix), rate), n, rate)

-----------------------------------------------------------------------------
Init == phase = "idle" /\ message = <<>> /\ output = <<>>

Start ==
  /\ phase = "idle" /\ phase' = "absorbing"
  /\ algorithm' \in DOMAIN Rate
  /\ message' = <<>> /\ output' = <<>>

StartWhole ==
  /\ phase = "idle" /\ phase' = "squeezing"
  /\ algorithm' \in DOMAIN Rate \ DOMAIN DigestBytes
  /\ IsPrefix(message, message')
  /\ UNCHANGED output

Absorb ==
  /\ phase = "absorbing" /\ IsPrefix(message, message')
  /\ UNCHANGED <<algorithm, output, phase>>

Finish ==
  /\ phase = "absorbing" /\ algorithm \notin DOMAIN DigestBytes
  /\ phase' = "squeezing"
  /\ UNCHANGED <<algorithm, message, output>>

Digest ==
  /\ phase = "absorbing" /\ algorithm \in DOMAIN DigestBytes
  /\ phase' = "done"
  /\ output' = Keccak(message, DigestBytes[algorithm], Rate[algorithm], Suffix[algorithm])
  /\ UNCHANGED <<algorithm, message>>

Squeeze ==
  /\ phase = "squeezing" /\ Len(output') >= Len(output)
  /\ output' = Keccak(message, Len(output'), Rate[algorithm], Suffix[algorithm])
  /\ UNCHANGED <<algorithm, message, phase>>

Next == Start \/ StartWhole \/ Absorb \/ Finish \/ Digest \/ Squeeze

Spec == Init /\ [][Next]_vars
=============================================================================
