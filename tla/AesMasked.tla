----------------------------- MODULE AesMasked -----------------------------
(***************************************************************************)
(* The masked AES peripheral: AES_Masked.v, which keeps state and key in   *)
(* two shares, the queues of AESMaskedBlackbox.scala around it, and the    *)
(* driver in aes-masked-test's main.c.                                     *)
(*                                                                         *)
(* A step is a clock cycle, as in AesPeripheral.  The registers of a share *)
(* are cells as in Aes.  Of the five stages of the masked S-box the model  *)
(* keeps what they compute: four cycles after its two inputs, the S-box of *)
(* their sum comes out in two shares, split as the random words say.       *)
(* A random word is its number: word i of ChaCha's block c is 16 c + i.    *)
(*                                                                         *)
(* "mat" is the driver's next access: 1 to 8 load the first share, 9 to 16 *)
(* the second, 17 is the write of MASK in its loop, 18 and 19 are the read *)
(* and the write of CTRL |= 1, 20 polls STATUS, 21 to 28 fetch two shares. *)
(***************************************************************************)
EXTENDS Aes

CONSTANT MaskedBlocks    \* the test vectors, a sequence of [key, plain, cipher]

ASSUME MaskedBlocksAssumption ==
  MaskedBlocks \in Seq([key : [1..16 -> Byte], plain : [1..16 -> Byte], cipher : [1..16 -> Byte]])

VARIABLES
  mcore,                  \* the registers of AES_Masked.v
  menable, mdone,         \* the peripheral's own two flags
  mkeyFifo, mplainFifo,   \* StreamFifo(Bits(32 bits), 8)
  maskFifo,               \* StreamFifo(Bits(28 bits), 280)
  mblock, mat, mbus,      \* the driver's loop counter, its next access, the bus
  share,                  \* maskedkey and maskedpt
  rng, prng, words,       \* random block, [counter, left] = prng[0] and prng[16], the loop's j
  mfetched,               \* the words AES_read has fetched, for all blocks
  used                    \* history: the last random word taken from the queue

maskedRegs == << mcore, menable, mdone, mkeyFifo, mplainFifo, maskFifo, used >>
maskedDriver == << mblock, mat, mbus, share, rng, prng, words, mfetched >>
maskedVars == << maskedRegs, maskedDriver >>

ShareDepth == 8
MaskDepth == 280
Added(a, b) == [n \in DOMAIN a |-> Xor(a[n], b[n])]

----------------------------------------------------------------------------
(* The driver's accesses.                                                  *)

MaskedAccess == mbus = "access"
WritesKeyShare == MaskedAccess /\ mat \in 1..16 /\ mat % 2 = 1
WritesPlainShare == MaskedAccess /\ mat \in 1..16 /\ mat % 2 = 0
WritesMask == MaskedAccess /\ mat = 17
WritesMaskedCtrl == MaskedAccess /\ mat = 19
ReadsMaskedStatus == MaskedAccess /\ mat = 20
ReadsMaskedCipher == MaskedAccess /\ mat \in 21..28

ShareWord(bytes) == Word(bytes, (((mat - 1) \div 2) % 4) + 1)

\* A block of random words, and a block whose first half the shares overwrite.
WordsPerBlock == 270
Copied == -1
chacha_block(counter) == [i \in 0..15 |-> 16 * counter + i]
Overwritten(block16) == [i \in 0..15 |-> IF i < 8 THEN Copied ELSE block16[i]]

\* The loop takes a new block when the last one is used up.
WholeBlock == 16                                          \* mutant
HalfBlock == 8
Refill == prng.left = 0
Generator == IF Refill THEN [counter |-> prng.counter + 1, left |-> 16] ELSE prng
RandomBlock == IF Refill THEN chacha_block(prng.counter + 1) ELSE rng
MaskWord == RandomBlock[16 - Generator.left]

----------------------------------------------------------------------------
(* The core.                                                               *)

Start16 == << {}, {}, {}, {} >>
ResetCore ==
  [fsm |-> "Idle", round |-> 1, control |-> 0, control1 |-> 0, control2 |-> 0, rcon |-> {0},
   state1 |-> Zero, state2 |-> Zero, key1 |-> Zero, key2 |-> Zero, stages |-> Start16]

\* A word is offered to the share that the occupancy of its queue stands for,
\* and the core asks for the share that its counter stands for.
OffersEarly(q) == IF q = << >> THEN 0 ELSE IF Len(q) <= 5 THEN 2 ELSE 1   \* mutant
Offers(q) == IF q = << >> THEN 0 ELSE IF Len(q) <= 4 THEN 2 ELSE 1
Asks == IF mcore.fsm # "Init" THEN 0 ELSE IF mcore.control < 4 THEN 1 ELSE 2
Taken(q) == q # << >> /\ Offers(q) = Asks
Loads(s) == Asks = s /\ Taken(mkeyFifo) /\ Taken(mplainFifo)

\* Which split of the result the S-box makes depends on the random words.
Split(word) == {i \in 0..7 : (word \div 2^i) % 2 = 1}
SBoxIn(c) ==
  IF c.control < 16 THEN Xor(Xor(c.state1[0], c.key1[0]), Xor(c.state2[0], c.key2[0]))
  ELSE Xor(c.key1[13], c.key2[13])
SBoxOut1(c, word) == Split(word)
SBoxOut0(c, word) == Xor(SBox[c.stages[1]], Split(word))

InRound(c, lo, hi) == c.fsm = "Round" /\ c.control \in lo..hi
Column(reg, c, word) == [n \in Cell |-> IF Col(n) = c THEN word[Row(n) + 1] ELSE reg[n]]

StateShare(c, state, key, out) ==
  CASE InRound(c, 0, 19) -> Shift(state, IF FinalKeyAdd(c) THEN Xor(state[0], key[0]) ELSE out)
    [] InRound(c, 20, 20) -> ShiftRows(state)
    [] InRound(c, 21, 24) -> MixColumn(state, ~FinalRound(c))
    [] OTHER -> state

\* Sixteen cycles turn the key, twelve of them adding columns from round 2 on;
\* four turn the last column through the S-box, four add what comes out of it.
ChainsAlways(c, key) ==                                   \* mutant
  [n \in Cell |-> IF n = 3 /\ c.control < 12 THEN Xor(key[0], key[4]) ELSE key[(n + 1) % 16]]
KeyChain(c, key) ==
  [n \in Cell |-> IF n = 3 /\ c.control < 12 /\ c.round > 1 THEN Xor(key[0], key[4])
                  ELSE key[(n + 1) % 16]]
KeyShare(c, key, out) ==
  CASE InRound(c, 0, 15) -> KeyChain(c, key)
    [] InRound(c, 16, 19) ->
         [n \in Cell |-> IF Col(n) < 3 THEN key[n] ELSE key[12 + ((n + 1) % 4)]]
    [] InRound(c, 20, 23) ->
         [n \in Cell |-> IF n < 3 THEN key[n + 1] ELSE IF n = 3 THEN Xor(out, key[0]) ELSE key[n]]
    [] OTHER -> key

MaskedOverflows(c) == InRound(c, 24, 24)
MaskedRoundsEnd(c) == InRound(c, 15, 15) /\ c.round = 11

MaskedFsm(c, enabled) ==
  CASE c.fsm = "Idle" -> IF enabled THEN "Init" ELSE "Idle"
    [] c.fsm = "Init" -> IF c.control = 7 THEN "Round" ELSE "Init"
    [] c.fsm = "Round" -> IF MaskedRoundsEnd(c) THEN "Done" ELSE "Round"
    [] c.fsm = "Done" -> IF c.control = 8 THEN "Idle" ELSE "Done"

MaskedControl(c, steps) ==
  IF \/ c.fsm = "Idle"
     \/ c.fsm = "Init" /\ c.control = 7
     \/ MaskedRoundsEnd(c)
     \/ MaskedOverflows(c)
  THEN 0 ELSE c.control + IF steps THEN 1 ELSE 0
ShareControl(c, control, steps) ==
  IF c.fsm = "Idle" THEN 0 ELSE (control + IF steps THEN 1 ELSE 0) % 4

\* The clock edge: "enabled", the words of key and plaintext on offer, whether a
\* word of ciphertext is taken, and the random word at the input m.
MaskedCoreNext(c, enabled, key, plain, fires, word) ==
  LET idle == c.fsm = "Idle"
      rc == IF c.control = 20 THEN c.rcon ELSE {}
      Share(s, reg, loaded, moved) ==
        IF idle THEN Zero
        ELSE IF Loads(s) THEN Column(reg, IF s = 1 THEN c.control1 ELSE c.control2, loaded)
        ELSE moved
  IN [fsm |-> MaskedFsm(c, enabled),
      round |-> IF idle THEN 1 ELSE IF MaskedOverflows(c) THEN (c.round % 11) + 1 ELSE c.round,
      control |-> MaskedControl(c, c.fsm = "Round" \/ fires \/ Loads(1) \/ Loads(2)),
      control1 |-> ShareControl(c, c.control1, Loads(1) \/ (fires /\ c.control < 4)),
      control2 |-> ShareControl(c, c.control2, Loads(2) \/ (fires /\ c.control >= 4)),
      rcon |-> IF idle THEN {0} ELSE IF MaskedOverflows(c) THEN Xtime(c.rcon) ELSE c.rcon,
      state1 |-> Share(1, c.state1, plain, StateShare(c, c.state1, c.key1, SBoxOut0(c, word))),
      state2 |-> Share(2, c.state2, plain, StateShare(c, c.state2, c.key2, SBoxOut1(c, word))),
      key1 |-> Share(1, c.key1, key, KeyShare(c, c.key1, Xor(SBoxOut0(c, word), rc))),
      key2 |-> Share(2, c.key2, key, KeyShare(c, c.key2, SBoxOut1(c, word))),
      stages |-> Append(Tail(c.stages), SBoxIn(c))]

MaskedCipher(c) ==
  IF c.control < 4 THEN [i \in 1..4 |-> c.state1[4 * c.control1 + i - 1]]
  ELSE [i \in 1..4 |-> c.state2[4 * c.control2 + i - 1]]

----------------------------------------------------------------------------
(* The peripheral.                                                         *)

MaskedCoreEnable == menable /\ ~Done(mcore)
MaskedEnableNext == WritesMaskedCtrl \/ (menable /\ ~Done(mcore))
MaskedDoneNext == ~MaskedCoreEnable /\ (Done(mcore) \/ mdone)

\* A word for a full queue is lost.
QueueNext(q, depth, push, word, pop) ==
  (IF pop THEN Tail(q) ELSE q) \o (IF push /\ Len(q) < depth THEN << word >> ELSE << >>)
Front(q) == IF q = << >> THEN [j \in 1..4 |-> {}] ELSE Head(q)

\* The random words run while the core is enabled and both queues are empty.
TakesMask == mkeyFifo = << >> /\ mplainFifo = << >> /\ menable /\ maskFifo # << >>

MaskedPeripheralNext ==
  /\ mcore' = MaskedCoreNext(mcore, MaskedCoreEnable, Front(mkeyFifo), Front(mplainFifo),
                             ReadsMaskedCipher /\ Done(mcore),
                             IF maskFifo = << >> THEN 0 ELSE Head(maskFifo))
  /\ menable' = MaskedEnableNext
  /\ mdone' = MaskedDoneNext
  /\ mkeyFifo' = QueueNext(mkeyFifo, ShareDepth, WritesKeyShare, ShareWord(share.key),
                           Taken(mkeyFifo))
  /\ mplainFifo' = QueueNext(mplainFifo, ShareDepth, WritesPlainShare, ShareWord(share.plain),
                             Taken(mplainFifo))
  /\ maskFifo' = QueueNext(maskFifo, MaskDepth, WritesMask, MaskWord, TakesMask)
  /\ used' = IF TakesMask THEN Head(maskFifo) ELSE used

----------------------------------------------------------------------------
(* The driver.                                                             *)

MaskedInit ==
  /\ mcore = ResetCore /\ menable = FALSE /\ mdone = FALSE
  /\ mkeyFifo = << >> /\ mplainFifo = << >> /\ maskFifo = << >> /\ used = 0
  /\ mblock = 1 /\ mat = 1 /\ mbus = "idle" /\ mfetched = << >> /\ words = 0
  /\ share = [key |-> [i \in 1..16 |-> {}], plain |-> [i \in 1..16 |-> {}]]
  /\ rng = Overwritten(chacha_block(0)) /\ prng = [counter |-> 0, left |-> 8]

\* The second share is the first one plus the text; the next block starts with it.
Remasked ==
  [key |-> Added(share.key, MaskedBlocks[mblock].key),
   plain |-> Added(share.plain, MaskedBlocks[mblock].plain)]

\* What the access of this cycle does to the driver.
MaskedComplete ==
  /\ mat' = CASE mat = 17 /\ words + 1 < WordsPerBlock -> 17
             [] mat = 20 /\ ~mdone -> 20
             [] OTHER -> (mat % 28) + 1
  /\ mblock' = IF mat = 28 THEN mblock + 1 ELSE mblock
  /\ words' = IF mat = 17 THEN (words + 1) % WordsPerBlock ELSE words
  /\ share' = IF mat = 8 THEN Remasked ELSE share
  /\ rng' = CASE mat = 17 -> RandomBlock
              [] mat = 28 -> Overwritten(chacha_block(prng.counter))
              [] OTHER -> rng
  /\ prng' = CASE mat = 17 -> [Generator EXCEPT !.left = @ - 1]
               [] mat = 28 -> [prng EXCEPT !.left = HalfBlock]
               [] OTHER -> prng
  /\ mfetched' = IF ReadsMaskedCipher THEN Append(mfetched, MaskedCipher(mcore)) ELSE mfetched

\* The CPU is busy with something else.
MaskedWait ==
  /\ mbus = "idle"
  /\ UNCHANGED maskedDriver

MaskedStart ==
  /\ mbus = "idle" /\ mblock <= Len(MaskedBlocks)
  /\ mbus' = "setup"
  /\ UNCHANGED << mblock, mat, share, rng, prng, words, mfetched >>

MaskedSetup ==
  /\ mbus = "setup"
  /\ mbus' = "access"
  /\ UNCHANGED << mblock, mat, share, rng, prng, words, mfetched >>

\* The next access may follow at once.
MaskedTransfer ==
  /\ MaskedAccess
  /\ MaskedComplete
  /\ mbus' = "idle" \/ (mbus' = "setup" /\ mblock' <= Len(MaskedBlocks))

MaskedNext == (MaskedWait \/ MaskedStart \/ MaskedSetup \/ MaskedTransfer) /\ MaskedPeripheralNext

----------------------------------------------------------------------------
(* Properties.                                                             *)

\* Which share a word belongs to is decided by how full its queue is: the first
\* share ends up in one half of the registers and the second in the other.
SharesApart ==
  mcore.fsm = "Round" /\ mcore.round = 1 /\ mcore.control = 0 =>
    /\ \A n \in Cell : mcore.state2[n] = share.plain[n + 1] /\ mcore.key2[n] = share.key[n + 1]
    /\ Added(mcore.state1, mcore.state2) = [n \in Cell |-> MaskedBlocks[mblock].plain[n + 1]]
    /\ Added(mcore.key1, mcore.key2) = [n \in Cell |-> MaskedBlocks[mblock].key[n + 1]]

\* The two shares fetched for a block add up to the ciphertext of its vector.
AnswersRecombine ==
  \A i \in DOMAIN mfetched : (i - 1) % 8 >= 4 =>
    Added(mfetched[i - 4], mfetched[i]) =
      Word(MaskedBlocks[((i - 1) \div 8) + 1].cipher, ((i - 1) % 4) + 1)

\* The known-answer test of aes-masked-test never reports a failure
\* (main.c:182), from shares that were never mixed up.
MaskedAnswer == SharesApart /\ AnswersRecombine

\* In every cycle in which the S-box works there is a random word for it, which
\* it has not had before and which comes from ChaCha, not from the shares that
\* main.c:151 copies over the block: words are left over from block to block, and
\* lost when the queue is full, but never repeated.
FreshMasks ==
  /\ mcore.fsm = "Round" /\ mcore.round < 11 => maskFifo # << >>
  /\ LET q == << used >> \o maskFifo
     IN \A i \in 1..Len(q) - 1 : q[i] < q[i + 1]
=============================================================================
