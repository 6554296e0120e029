--------------------------- MODULE AesMaskedProofs ---------------------------
(***************************************************************************)
(* The masked AES, whatever the blocks, their number and the delays of the *)
(* CPU: the S-box never works without a random word and never with one it  *)
(* has had before; the shares of key and plaintext reach their own         *)
(* registers; and the two shares of an answer add up to the standard's     *)
(* ciphertext.                                                             *)
(*                                                                         *)
(* All that the core does to a share but the S-box is linear, so the sum   *)
(* of the shares takes the steps of AES.v; what those amount to is stated  *)
(* with Moved and Passing, the movements of AesRounds.                     *)
(***************************************************************************)
EXTENDS MCAes, AesRounds, SequenceTheorems

\* The queues of key and plaintext matter by their lengths only.
IsSequence(q) == \E S : q \in Seq(S)
Queued(n, m) == Len(mkeyFifo) = n /\ Len(mplainFifo) = m

DriverOK ==
  /\ mcore.fsm \in {"Idle", "Init", "Round", "Done"}
  /\ mcore.control \in Nat /\ mcore.round \in 1..11
  /\ menable \in BOOLEAN /\ mdone \in BOOLEAN
  /\ IsSequence(mkeyFifo) /\ IsSequence(mplainFifo)
  /\ mat \in 1..28 /\ words \in 0..269
  /\ mat # 17 => words = 0
  /\ mbus \in {"idle", "setup", "access"}

\* Where the core is while the driver is at each of its accesses.
Filling ==
  /\ mat \in 1..19 =>
       /\ ~menable
       /\ \/ mcore.fsm = "Idle"
          \/ mat = 1 /\ mbus # "access" /\ mcore.fsm = "Done" /\ mcore.control = 8
  /\ mat \in 1..16 => Queued(mat \div 2, (mat - 1) \div 2)
  /\ mat \in 17..19 => Queued(8, 8)
Running ==
  mat = 20 =>
    \/ mcore.fsm = "Idle" /\ menable /\ Queued(8, 8) /\ mbus # "access"
    \/ /\ mcore.fsm = "Init" /\ menable /\ ~mdone /\ mcore.control \in 0..7 /\ mcore.round = 1
       /\ Queued(8 - mcore.control, 8 - mcore.control)
    \/ mcore.fsm = "Round" /\ menable /\ ~mdone /\ Queued(0, 0)
    \/ /\ mcore.fsm = "Done" /\ mcore.control = 0 /\ Queued(0, 0)
       /\ menable => ~mdone
Fetching ==
  mat \in 21..28 => mcore.fsm = "Done" /\ mcore.control = mat - 21 /\ ~menable /\ Queued(0, 0)

\* Ten passes of 25 cycles and one of 16 take at most a word each, and the driver has
\* written 270 before the first.
Supplied ==
  /\ mat = 17 => Len(maskFifo) >= words
  /\ mat \in 18..19 \/ (mat = 20 /\ mcore.fsm \in {"Idle", "Init"}) => Len(maskFifo) >= 270
  /\ mcore.fsm = "Round" =>
       /\ mcore.control \in IF mcore.round = 11 THEN 0..15 ELSE 0..24
       /\ Len(maskFifo) + 25 * (mcore.round - 1) + mcore.control >= 270

\* The driver's words are numbered in the order in which it takes them.  A new block
\* begins at word 8 of the block that the last one ended in, which is never one
\* that has been taken: 270 words after word 8 it is at word 6 of a block.
Position == 16 * prng.counter + (16 - prng.left)
Written == IF mat < 17 THEN 0 ELSE IF mat = 17 THEN words ELSE 270
Numbered ==
  /\ prng \in [counter : Nat, left : 0..16]
  /\ prng.left = (280 - Written) % 16
  /\ \A i \in (16 - prng.left)..15 : rng[i] = 16 * prng.counter + i

\* Those in the queue are in order, after the last one used and before the next one.
Ordered ==
  /\ maskFifo \in Seq(Nat) /\ used \in Nat /\ used < Position
  /\ \A i \in 1..Len(maskFifo) : used < maskFifo[i] /\ maskFifo[i] < Position
  /\ \A i, j \in 1..Len(maskFifo) : i < j => maskFifo[i] < maskFifo[j]

CoreInv == DriverOK /\ Filling /\ Running /\ Fetching
MaskInv == CoreInv /\ Supplied /\ Numbered /\ Ordered

-----------------------------------------------------------------------------
(* A cycle of a queue: it loses its head if that is taken, and gains the   *)
(* word pushed unless it is full.                                          *)

Stepped(S, q, next, depth, push, word, pop) ==
  LET gone == IF pop THEN 1 ELSE 0
  IN /\ next \in Seq(S)
     /\ Len(next) = Len(q) - gone + (IF push /\ Len(q) < depth THEN 1 ELSE 0)
     /\ \A i \in 1..Len(next) : next[i] = IF i + gone <= Len(q) THEN q[i + gone] ELSE word

LEMMA QueueStep ==
  ASSUME NEW S, NEW q \in Seq(S), NEW depth \in Nat, NEW push \in BOOLEAN, NEW pop \in BOOLEAN,
         NEW word \in S, pop => q # << >>
  PROVE  Stepped(S, q, QueueNext(q, depth, push, word, pop), depth, push, word, pop)
<1> DEFINE gone == IF pop THEN 1 ELSE 0
           rest == IF pop THEN Tail(q) ELSE q
           new == IF push /\ Len(q) < depth THEN << word >> ELSE << >>
<1>1. /\ rest \in Seq(S) /\ Len(rest) = Len(q) - gone
      /\ \A i \in 1..Len(rest) : rest[i] = q[i + gone]
  <2>1. CASE pop
    <3>1. gone = 1 /\ rest = Tail(q)
      BY <2>1
    <3> HIDE DEF gone, rest
    <3> QED
      BY <2>1, <3>1
  <2>2. CASE ~pop
    <3>1. gone = 0 /\ rest = q
      BY <2>2
    <3> HIDE DEF gone, rest
    <3> QED
      BY <3>1
  <2> QED
    BY <2>1, <2>2
<1>2. /\ new \in Seq(S) /\ Len(new) = IF push /\ Len(q) < depth THEN 1 ELSE 0
      /\ \A i \in 1..Len(new) : i = 1 /\ new[i] = word
  <2>1. CASE push /\ Len(q) < depth
    <3>1. new = << word >>
      BY <2>1
    <3>2. << word >> \in Seq(S) /\ Len(<< word >>) = 1 /\ << word >>[1] = word
      OBVIOUS
    <3> HIDE DEF new
    <3> QED
      BY <2>1, <3>1, <3>2
  <2>2. CASE ~(push /\ Len(q) < depth)
    <3>1. new = << >>
      BY <2>2
    <3> HIDE DEF new
    <3> QED
      BY <2>2, <3>1
  <2> QED
    BY <2>1, <2>2
<1>3. QueueNext(q, depth, push, word, pop) = rest \o new
  BY DEF QueueNext
<1>4. gone \in 0..1 /\ Len(q) \in Nat
  OBVIOUS
<1> HIDE DEF rest, new, gone
<1>5. /\ rest \o new \in Seq(S) /\ Len(rest \o new) = Len(rest) + Len(new)
      /\ \A i \in 1..Len(rest) + Len(new) :
           (rest \o new)[i] = IF i <= Len(rest) THEN rest[i] ELSE new[i - Len(rest)]
  BY <1>1, <1>2, ConcatProperties
<1>6. ASSUME NEW i \in 1..Len(rest \o new)
      PROVE  (rest \o new)[i] = IF i + gone <= Len(q) THEN q[i + gone] ELSE word
  <2>1. CASE i <= Len(rest)
    BY <1>1, <1>4, <1>5, <2>1
  <2>2. CASE ~(i <= Len(rest))
    <3>1. i - Len(rest) \in 1..Len(new) /\ ~(i + gone <= Len(q))
      BY <1>1, <1>2, <1>4, <1>5, <2>2
    <3> QED
      BY <1>2, <1>5, <2>2, <3>1
  <2> QED
    BY <2>1, <2>2
<1> QED
  BY <1>1, <1>2, <1>3, <1>5, <1>6 DEF gone, Stepped

LEMMA LengthStep ==
  ASSUME NEW q, IsSequence(q), NEW depth \in Nat, NEW push \in BOOLEAN, NEW pop \in BOOLEAN,
         NEW word, pop => q # << >>
  PROVE  LET next == QueueNext(q, depth, push, word, pop)
         IN /\ IsSequence(next)
            /\ Len(next) = Len(q) - (IF pop THEN 1 ELSE 0)
                                  + (IF push /\ Len(q) < depth THEN 1 ELSE 0)
<1>1. PICK S : q \in Seq(S)
  BY DEF IsSequence
<1> DEFINE T == S \cup {word}
<1>2. q \in Seq(T) /\ word \in T
  BY <1>1
<1> HIDE DEF T
<1>3. Stepped(T, q, QueueNext(q, depth, push, word, pop), depth, push, word, pop)
  BY <1>2, QueueStep
<1> QED
  BY <1>3 DEF IsSequence, Stepped

-----------------------------------------------------------------------------
(* What a cycle does to the part of the peripheral the invariant is about. *)

CoreCycle ==
  /\ mcore.fsm = "Idle" => /\ mcore'.fsm = (IF menable THEN "Init" ELSE "Idle")
                          /\ mcore'.control = 0 /\ mcore'.round = 1
  /\ mcore.fsm = "Init" =>
       /\ IF mcore.control = 7 THEN mcore'.fsm = "Round" /\ mcore'.control = 0
          ELSE /\ mcore'.fsm = "Init"
               /\ mcore'.control = mcore.control + IF Loads(1) \/ Loads(2) THEN 1 ELSE 0
       /\ mcore'.round = mcore.round
  /\ mcore.fsm = "Round" =>
       IF mcore.round = 11 /\ mcore.control = 15
       THEN mcore'.fsm = "Done" /\ mcore'.control = 0 /\ mcore'.round = mcore.round
       ELSE /\ mcore'.fsm = "Round"
            /\ IF mcore.control = 24 THEN mcore'.control = 0 /\ mcore'.round = (mcore.round % 11) + 1
               ELSE mcore'.control = mcore.control + 1 /\ mcore'.round = mcore.round
  /\ mcore.fsm = "Done" =>
       /\ mcore'.fsm = (IF mcore.control = 8 THEN "Idle" ELSE "Done")
       /\ mcore'.control = mcore.control + (IF ReadsMaskedCipher THEN 1 ELSE 0)
       /\ mcore'.round = mcore.round

QueueCycle(q, next, writes) ==
  /\ IsSequence(next)
  /\ Len(next) = Len(q) - (IF Taken(q) THEN 1 ELSE 0) + (IF writes /\ Len(q) < 8 THEN 1 ELSE 0)

Cycle ==
  /\ CoreCycle
  /\ menable' = (WritesMaskedCtrl \/ (menable /\ mcore.fsm # "Done"))
  /\ mdone' = ((~menable /\ mdone) \/ mcore.fsm = "Done")
  /\ menable' \in BOOLEAN /\ mdone' \in BOOLEAN
  /\ QueueCycle(mkeyFifo, mkeyFifo', WritesKeyShare)
  /\ QueueCycle(mplainFifo, mplainFifo', WritesPlainShare)

LEMMA CoreStep ==
  ASSUME DriverOK, MaskedPeripheralNext
  PROVE  CoreCycle
<1> DEFINE fires == ReadsMaskedCipher /\ Done(mcore)
           key == Front(mkeyFifo)
           plain == Front(mplainFifo)
           word == IF maskFifo = << >> THEN 0 ELSE Head(maskFifo)
<1>1. mcore' = MaskedCoreNext(mcore, MaskedCoreEnable, key, plain, fires, word)
  BY DEF MaskedPeripheralNext
<1> HIDE DEF fires, key, plain, word
<1>2. /\ mcore'.fsm = MaskedFsm(mcore, MaskedCoreEnable)
      /\ mcore'.round = (IF mcore.fsm = "Idle" THEN 1
                        ELSE IF MaskedOverflows(mcore) THEN (mcore.round % 11) + 1 ELSE mcore.round)
      /\ mcore'.control = MaskedControl(mcore, mcore.fsm = "Round" \/ fires \/ Loads(1) \/ Loads(2))
  BY <1>1 DEF MaskedCoreNext
<1>3. CASE mcore.fsm = "Idle"
  BY <1>2, <1>3 DEF CoreCycle, MaskedFsm, MaskedControl, MaskedCoreEnable, Done
<1>4. CASE mcore.fsm = "Init"
  <2>1. ~fires /\ ~MaskedOverflows(mcore) /\ ~MaskedRoundsEnd(mcore)
    BY <1>4 DEF fires, Done, MaskedOverflows, MaskedRoundsEnd, InRound
  <2>2. mcore'.fsm = (IF mcore.control = 7 THEN "Round" ELSE "Init") /\ mcore'.round = mcore.round
    BY <1>2, <1>4, <2>1 DEF MaskedFsm
  <2>3. mcore'.control = IF mcore.control = 7 THEN 0
                        ELSE mcore.control + IF Loads(1) \/ Loads(2) THEN 1 ELSE 0
    BY <1>2, <1>4, <2>1 DEF MaskedControl
  <2> QED
    BY <1>4, <2>2, <2>3 DEF CoreCycle
<1>5. CASE mcore.fsm = "Round"
  <2>1. /\ MaskedOverflows(mcore) <=> mcore.control = 24
        /\ MaskedRoundsEnd(mcore) <=> mcore.round = 11 /\ mcore.control = 15
    BY <1>5 DEF MaskedOverflows, MaskedRoundsEnd, InRound, DriverOK
  <2>2. mcore'.fsm = IF MaskedRoundsEnd(mcore) THEN "Done" ELSE "Round"
    BY <1>2, <1>5 DEF MaskedFsm
  <2>3. mcore'.control = IF MaskedRoundsEnd(mcore) \/ MaskedOverflows(mcore) THEN 0 ELSE mcore.control + 1
    BY <1>2, <1>5 DEF MaskedControl
  <2>4. mcore'.round = IF MaskedOverflows(mcore) THEN (mcore.round % 11) + 1 ELSE mcore.round
    BY <1>2, <1>5
  <2> QED
    BY <1>5, <2>1, <2>2, <2>3, <2>4 DEF CoreCycle
<1>6. CASE mcore.fsm = "Done"
  <2>1. (fires <=> ReadsMaskedCipher) /\ ~MaskedOverflows(mcore) /\ ~MaskedRoundsEnd(mcore) /\ Asks = 0
    BY <1>6 DEF fires, Done, MaskedOverflows, MaskedRoundsEnd, InRound, Asks
  <2>2. ~Loads(1) /\ ~Loads(2)
    BY <2>1 DEF Loads
  <2>3. mcore'.control = mcore.control + IF ReadsMaskedCipher THEN 1 ELSE 0
    BY <1>2, <1>6, <2>1, <2>2 DEF MaskedControl
  <2>4. mcore'.fsm = (IF mcore.control = 8 THEN "Idle" ELSE "Done") /\ mcore'.round = mcore.round
    BY <1>2, <1>6, <2>1 DEF MaskedFsm
  <2> QED
    BY <1>6, <2>3, <2>4 DEF CoreCycle
<1> QED
  BY <1>3, <1>4, <1>5, <1>6 DEF DriverOK

LEMMA CycleStep ==
  ASSUME DriverOK, MaskedPeripheralNext
  PROVE  Cycle
<1>1. menable' = (WritesMaskedCtrl \/ (menable /\ mcore.fsm # "Done"))
  BY DEF MaskedPeripheralNext, MaskedEnableNext, Done
<1>2. mdone' = ((~menable /\ mdone) \/ mcore.fsm = "Done")
  <2>1. mdone' = (~(menable /\ ~(mcore.fsm = "Done")) /\ (mcore.fsm = "Done" \/ mdone))
    BY DEF MaskedPeripheralNext, MaskedDoneNext, MaskedCoreEnable, Done
  <2> QED
    BY <2>1, Zenon
<1>3. menable' \in BOOLEAN /\ mdone' \in BOOLEAN
  BY <1>1, <1>2, Zenon
<1>4. ASSUME NEW q, IsSequence(q), NEW writes \in BOOLEAN, NEW word
      PROVE  QueueCycle(q, QueueNext(q, ShareDepth, writes, word, Taken(q)), writes)
  <2>1. Taken(q) \in BOOLEAN /\ (Taken(q) => q # << >>)
    BY DEF Taken
  <2>2. ShareDepth \in Nat /\ ShareDepth = 8
    BY DEF ShareDepth
  <2> QED
    BY <1>4, <2>1, <2>2, LengthStep DEF QueueCycle
<1>5. WritesKeyShare \in BOOLEAN /\ WritesPlainShare \in BOOLEAN
  BY DEF WritesKeyShare, WritesPlainShare
<1>6. /\ mkeyFifo' = QueueNext(mkeyFifo, ShareDepth, WritesKeyShare, ShareWord(share.key), Taken(mkeyFifo))
      /\ mplainFifo' = QueueNext(mplainFifo, ShareDepth, WritesPlainShare, ShareWord(share.plain), Taken(mplainFifo))
      /\ IsSequence(mkeyFifo) /\ IsSequence(mplainFifo)
  BY DEF MaskedPeripheralNext, DriverOK
<1>7. QueueCycle(mkeyFifo, mkeyFifo', WritesKeyShare) /\ QueueCycle(mplainFifo, mplainFifo', WritesPlainShare)
  BY <1>4, <1>5, <1>6
<1> QED
  BY <1>1, <1>2, <1>3, <1>7, CoreStep DEF Cycle

-----------------------------------------------------------------------------
(* Where core and driver are.                                              *)

\* A word is taken in every cycle of the loading state and in no other.
LEMMA Takes ==
  ASSUME DriverOK, NEW q, IsSequence(q)
  PROVE  /\ mcore.fsm # "Init" => ~Taken(q)
         /\ mcore.fsm = "Init" /\ mcore.control \in 0..7 /\ Len(q) = 8 - mcore.control => Taken(q)
<1>1. mcore.fsm # "Init" => ~Taken(q)
  BY DEF Taken, Asks, Offers
<1>2. ASSUME mcore.fsm = "Init", mcore.control \in 0..7, Len(q) = 8 - mcore.control
      PROVE  Taken(q)
  <2>1. q # << >>
    BY <1>2
  <2>2. Asks = IF mcore.control < 4 THEN 1 ELSE 2
    BY <1>2 DEF Asks
  <2>3. Offers(q) = IF Len(q) <= 4 THEN 2 ELSE 1
    BY <2>1 DEF Offers
  <2>4. Len(q) <= 4 <=> ~(mcore.control < 4)
    BY <1>2
  <2> QED
    BY <2>1, <2>2, <2>3, <2>4 DEF Taken
<1> QED
  BY <1>1, <1>2

LEMMA InitInv == MaskedInit => MaskInv
<1> SUFFICES ASSUME MaskedInit PROVE MaskInv
  OBVIOUS
<1>1. mcore.fsm = "Idle" /\ mcore.control = 0 /\ mcore.round = 1
  BY DEF MaskedInit, ResetCore
<1>2. /\ menable = FALSE /\ mdone = FALSE /\ mkeyFifo = << >> /\ mplainFifo = << >> /\ maskFifo = << >>
      /\ used = 0 /\ mat = 1 /\ mbus = "idle" /\ words = 0
      /\ rng = Overwritten(chacha_block(0)) /\ prng = [counter |-> 0, left |-> 8]
  BY DEF MaskedInit
<1>3. IsSequence(<< >>)
  <2>1. << >> \in Seq(Nat)
    OBVIOUS
  <2> QED
    BY <2>1 DEF IsSequence
<1>4. CoreInv
  <2>1. DriverOK
    <3>1. IsSequence(mkeyFifo) /\ IsSequence(mplainFifo)
      BY <1>2, <1>3, Zenon
    <3>2. menable \in BOOLEAN /\ mdone \in BOOLEAN
      BY <1>2
    <3> QED
      BY <1>1, <1>2, <3>1, <3>2 DEF DriverOK
  <2>2. Filling
    BY <1>1, <1>2 DEF Filling, Queued
  <2>3. Running /\ Fetching
    BY <1>2 DEF Running, Fetching
  <2> QED
    BY <2>1, <2>2, <2>3 DEF CoreInv
<1>5. Supplied
  BY <1>1, <1>2 DEF Supplied
<1>6. Numbered
  <2>1. ASSUME NEW i \in 8..15 PROVE rng[i] = 16 * 0 + i
    BY <1>2, <2>1 DEF Overwritten, chacha_block
  <2> QED
    BY <1>2, <2>1 DEF Numbered, Written
<1>7. Ordered
  BY <1>2 DEF Ordered, Position
<1> QED
  BY <1>4, <1>5, <1>6, <1>7 DEF MaskInv

LEMMA DriverStep ==
  ASSUME CoreInv, Cycle, MaskedWait \/ MaskedStart \/ MaskedSetup \/ MaskedTransfer
  PROVE  DriverOK'
<1>1. /\ mcore'.fsm \in {"Idle", "Init", "Round", "Done"}
      /\ mcore'.control \in Nat /\ mcore'.round \in 1..11
  BY DEF CoreInv, DriverOK, Cycle, CoreCycle
<1>2. /\ menable' \in BOOLEAN /\ mdone' \in BOOLEAN
      /\ IsSequence(mkeyFifo') /\ IsSequence(mplainFifo')
  BY DEF Cycle, QueueCycle
<1>3. /\ mat' \in 1..28 /\ words' \in 0..269 /\ (mat' # 17 => words' = 0)
      /\ mbus' \in {"idle", "setup", "access"}
  <2>1. CASE MaskedWait
    BY <2>1 DEF MaskedWait, maskedDriver, CoreInv, DriverOK
  <2>2. CASE MaskedStart
    BY <2>2 DEF MaskedStart, CoreInv, DriverOK
  <2>3. CASE MaskedSetup
    BY <2>3 DEF MaskedSetup, CoreInv, DriverOK
  <2>4. CASE MaskedTransfer
    <3>1. /\ mat' = (CASE mat = 17 /\ words + 1 < 270 -> 17
                     [] mat = 20 /\ ~mdone -> 20
                     [] OTHER -> (mat % 28) + 1)
          /\ words' = (IF mat = 17 THEN (words + 1) % 270 ELSE words)
          /\ mbus' \in {"idle", "setup"}
      BY <2>4 DEF MaskedTransfer, MaskedComplete, WordsPerBlock
    <3>2. mat \in 1..28 /\ words \in 0..269 /\ (mat # 17 => words = 0)
      BY DEF CoreInv, DriverOK
    <3>3. CASE mat = 17
      BY <3>1, <3>2, <3>3
    <3>4. CASE mat # 17
      <4>1. mat' = 20 \/ mat' = (mat % 28) + 1
        BY <3>1, <3>4
      <4> QED
        BY <3>1, <3>2, <3>4, <4>1
    <3> QED
      BY <3>3, <3>4
  <2> QED
    BY <2>1, <2>2, <2>3, <2>4
<1> QED
  BY <1>1, <1>2, <1>3 DEF DriverOK

\* While it loads, the core takes the words of both queues in step.
LEMMA LoadingStep ==
  ASSUME CoreInv, Cycle, mat = 20, mat' = 20, mcore.fsm = "Init"
  PROVE  Running'
<1>1. /\ menable /\ ~mdone /\ mcore.control \in 0..7 /\ mcore.round = 1
      /\ Len(mkeyFifo) = 8 - mcore.control /\ Len(mplainFifo) = 8 - mcore.control
  BY DEF CoreInv, Running, Queued
<1>2. Taken(mkeyFifo) /\ Taken(mplainFifo)
  BY <1>1, Takes DEF CoreInv, DriverOK
<1>3. Loads(1) \/ Loads(2)
  BY <1>2 DEF Loads, Asks
<1>4. IF mcore.control = 7 THEN mcore'.fsm = "Round" /\ mcore'.control = 0
      ELSE mcore'.fsm = "Init" /\ mcore'.control = mcore.control + 1
  BY <1>3 DEF Cycle, CoreCycle
<1>5. mcore'.round = 1 /\ menable' /\ ~mdone'
  BY <1>1 DEF Cycle, CoreCycle
<1>6. ~WritesKeyShare /\ ~WritesPlainShare
  BY DEF WritesKeyShare, WritesPlainShare
<1>7. Len(mkeyFifo') = 7 - mcore.control /\ Len(mplainFifo') = 7 - mcore.control
  BY <1>1, <1>2, <1>6 DEF Cycle, QueueCycle
<1> QED
  BY <1>1, <1>4, <1>5, <1>7 DEF Running, Queued

\* Otherwise the lengths change only by what the driver writes.
LEMMA OtherwiseStep ==
  ASSUME CoreInv, Cycle, mcore.fsm # "Init"
  PROVE  /\ Len(mkeyFifo') = Len(mkeyFifo) + (IF WritesKeyShare /\ Len(mkeyFifo) < 8 THEN 1 ELSE 0)
         /\ Len(mplainFifo') = Len(mplainFifo) + (IF WritesPlainShare /\ Len(mplainFifo) < 8 THEN 1 ELSE 0)
         /\ Len(mkeyFifo) \in Nat /\ Len(mplainFifo) \in Nat
<1>1. ~Taken(mkeyFifo) /\ ~Taken(mplainFifo)
  BY Takes DEF CoreInv, DriverOK
<1>2. Len(mkeyFifo) \in Nat /\ Len(mplainFifo) \in Nat
  BY DEF CoreInv, DriverOK, IsSequence
<1> QED
  BY <1>1, <1>2 DEF Cycle, QueueCycle

\* The core works on while the driver polls, and keeps its answer until it is fetched.
LEMMA PollingStep ==
  ASSUME CoreInv, Cycle, mat = 20, mat' = 20
  PROVE  Running'
<1>1. ~WritesKeyShare /\ ~WritesPlainShare /\ ~WritesMaskedCtrl /\ ~ReadsMaskedCipher
  BY DEF WritesKeyShare, WritesPlainShare, WritesMaskedCtrl, ReadsMaskedCipher
<1>2. CASE mcore.fsm = "Idle"
  <2>1. menable /\ Queued(8, 8)
    BY <1>2 DEF CoreInv, Running
  <2>2. mcore'.fsm = "Init" /\ mcore'.control = 0 /\ mcore'.round = 1 /\ menable' /\ ~mdone'
    BY <1>1, <1>2, <2>1 DEF Cycle, CoreCycle
  <2>3. Len(mkeyFifo') = 8 /\ Len(mplainFifo') = 8
    BY <1>1, <1>2, <2>1, OtherwiseStep DEF Queued
  <2> QED
    BY <2>2, <2>3 DEF Running, Queued
<1>3. CASE mcore.fsm = "Round"
  <2>1. menable /\ ~mdone /\ Queued(0, 0)
    BY <1>3 DEF CoreInv, Running
  <2>2. menable' /\ ~mdone'
    BY <1>1, <1>3, <2>1 DEF Cycle
  <2>3. mcore'.fsm = "Round" \/ (mcore'.fsm = "Done" /\ mcore'.control = 0)
    BY <1>3 DEF Cycle, CoreCycle
  <2>4. Len(mkeyFifo') = 0 /\ Len(mplainFifo') = 0
    BY <1>1, <1>3, <2>1, OtherwiseStep DEF Queued
  <2> QED
    BY <2>2, <2>3, <2>4 DEF Running, Queued
<1>4. CASE mcore.fsm = "Done"
  <2>1. mcore.control = 0 /\ Queued(0, 0)
    BY <1>4 DEF CoreInv, Running
  <2>2. mcore'.fsm = "Done" /\ mcore'.control = 0 /\ ~menable'
    <3>1. mcore'.fsm = "Done" /\ mcore'.control = 0
      BY <1>1, <1>4, <2>1 DEF Cycle, CoreCycle
    <3>2. ~menable'
      BY <1>1, <1>4, Zenon DEF Cycle
    <3> QED
      BY <3>1, <3>2
  <2>3. Len(mkeyFifo') = 0 /\ Len(mplainFifo') = 0
    BY <1>1, <1>4, <2>1, OtherwiseStep DEF Queued
  <2> QED
    BY <2>2, <2>3 DEF Running, Queued
<1> QED
  BY <1>2, <1>3, <1>4, LoadingStep DEF CoreInv, DriverOK

\* A cycle without an access leaves the driver where it is.
LEMMA QuietStep ==
  ASSUME CoreInv, Cycle, MaskedWait \/ MaskedStart \/ MaskedSetup
  PROVE  Filling' /\ Running' /\ Fetching'
<1>1. mat' = mat /\ ~MaskedAccess
  BY DEF MaskedWait, MaskedStart, MaskedSetup, maskedDriver, MaskedAccess
<1>2. ~WritesKeyShare /\ ~WritesPlainShare /\ ~WritesMaskedCtrl /\ ~ReadsMaskedCipher
  BY <1>1 DEF WritesKeyShare, WritesPlainShare, WritesMaskedCtrl, ReadsMaskedCipher
<1>3. CASE mat \in 1..19
  <2>1. ~menable /\ mcore.fsm # "Init"
    BY <1>3 DEF CoreInv, Filling
  <2>2. ~menable'
    BY <1>2, <2>1, Zenon DEF Cycle
  <2>3. mcore'.fsm = "Idle"
    BY <1>3, <2>1 DEF CoreInv, Filling, Cycle, CoreCycle
  <2>4. Len(mkeyFifo') = Len(mkeyFifo) /\ Len(mplainFifo') = Len(mplainFifo)
    BY <1>2, <2>1, OtherwiseStep
  <2>5. Filling'
    BY <1>1, <1>3, <2>2, <2>3, <2>4 DEF CoreInv, Filling, Queued
  <2> QED
    BY <1>1, <1>3, <2>5 DEF Running, Fetching
<1>4. CASE mat = 20
  BY <1>1, <1>4, PollingStep DEF Filling, Fetching
<1>5. CASE mat \in 21..28
  <2>1. mcore.fsm = "Done" /\ mcore.control = mat - 21 /\ ~menable /\ Queued(0, 0)
    BY <1>5 DEF CoreInv, Fetching
  <2>2. mcore'.fsm = "Done" /\ mcore'.control = mat - 21
    BY <1>2, <1>5, <2>1 DEF Cycle, CoreCycle
  <2>3. ~menable'
    BY <1>2, <2>1, Zenon DEF Cycle
  <2>4. Len(mkeyFifo') = 0 /\ Len(mplainFifo') = 0
    BY <1>2, <2>1, OtherwiseStep DEF Queued
  <2>5. Fetching'
    BY <1>1, <1>5, <2>2, <2>3, <2>4 DEF Fetching, Queued
  <2> QED
    BY <1>1, <1>5, <2>5 DEF Filling, Running
<1> QED
  BY <1>3, <1>4, <1>5 DEF CoreInv, DriverOK

\* The next access.
LEMMA Advances ==
  ASSUME CoreInv, MaskedTransfer
  PROVE  /\ MaskedAccess /\ MaskedComplete /\ mbus' # "access"
         /\ mat \in 1..16 \cup 18..19 \cup 21..27 => mat' = mat + 1
         /\ mat = 17 => mat' \in {17, 18}
         /\ mat = 20 => mat' = IF mdone THEN 21 ELSE 20
         /\ mat = 28 => mat' = 1
<1>1. MaskedAccess /\ MaskedComplete /\ mbus' # "access"
  BY DEF MaskedTransfer
<1>2. mat' = CASE mat = 17 /\ words + 1 < 270 -> 17
              [] mat = 20 /\ ~mdone -> 20
              [] OTHER -> (mat % 28) + 1
  BY <1>1 DEF MaskedComplete, WordsPerBlock
<1>3. mat = 20 => mat' = IF mdone THEN 21 ELSE 20
  BY <1>2
<1> QED
  BY <1>1, <1>2, <1>3

\* An access moves the driver on, except a poll that reads 0.
LEMMA AccessStep ==
  ASSUME CoreInv, Cycle, MaskedTransfer
  PROVE  Filling' /\ Running' /\ Fetching'
<1>1. MaskedAccess /\ mbus' # "access"
  BY Advances
<1>2. CASE mat \in 1..19
  <2>1. mcore.fsm = "Idle" /\ ~menable /\ ~ReadsMaskedCipher
    BY <1>1, <1>2 DEF CoreInv, Filling, ReadsMaskedCipher, MaskedAccess
  <2>2. mcore'.fsm = "Idle"
    BY <2>1 DEF Cycle, CoreCycle
  <2>3. /\ Len(mkeyFifo') = Len(mkeyFifo) + (IF WritesKeyShare /\ Len(mkeyFifo) < 8 THEN 1 ELSE 0)
        /\ Len(mplainFifo') = Len(mplainFifo) + (IF WritesPlainShare /\ Len(mplainFifo) < 8 THEN 1 ELSE 0)
    BY <2>1, OtherwiseStep
  <2>4. CASE mat \in 1..16
    <3>1. mat' = mat + 1 /\ ~WritesMaskedCtrl
      BY <2>4, Advances DEF WritesMaskedCtrl
    <3>2. Len(mkeyFifo) = mat \div 2 /\ Len(mplainFifo) = (mat - 1) \div 2
      BY <2>4 DEF CoreInv, Filling, Queued
    <3>3. (WritesKeyShare <=> mat % 2 = 1) /\ (WritesPlainShare <=> mat % 2 = 0)
      BY <1>1, <2>4 DEF WritesKeyShare, WritesPlainShare
    <3>4. Len(mkeyFifo') = (mat + 1) \div 2 /\ Len(mplainFifo') = mat \div 2
      BY <2>3, <2>4, <3>2, <3>3
    <3>5. ~menable'
      BY <2>1, <3>1, Zenon DEF Cycle
    <3>6. Filling'
      BY <2>2, <2>4, <3>1, <3>4, <3>5 DEF Filling, Queued
    <3> QED
      BY <2>4, <3>1, <3>6 DEF Running, Fetching
  <2>5. CASE mat \in 17..19
    <3>1. ~WritesKeyShare /\ ~WritesPlainShare
      BY <2>5 DEF WritesKeyShare, WritesPlainShare
    <3>2. Len(mkeyFifo) = 8 /\ Len(mplainFifo) = 8
      BY <2>5 DEF CoreInv, Filling, Queued
    <3>3. Len(mkeyFifo') = 8 /\ Len(mplainFifo') = 8
      BY <2>3, <3>1, <3>2
    <3>4. CASE mat \in 17..18
      <4>1. mat' \in 17..19 /\ ~WritesMaskedCtrl
        BY <3>4, Advances DEF WritesMaskedCtrl
      <4>2. ~menable'
        BY <2>1, <4>1, Zenon DEF Cycle
      <4>3. Filling'
        <5>1. ~(mat' \in 1..16)
          BY <4>1
        <5> QED
          BY <2>2, <3>3, <4>2, <5>1 DEF Filling, Queued
      <4> QED
        BY <4>1, <4>3 DEF Running, Fetching
    <3>5. CASE mat = 19
      <4>1. mat' = 20 /\ WritesMaskedCtrl
        BY <1>1, <3>5, Advances DEF WritesMaskedCtrl
      <4>2. menable'
        BY <4>1, Zenon DEF Cycle
      <4>3. Running'
        BY <1>1, <2>2, <3>3, <4>1, <4>2 DEF Running, Queued
      <4> QED
        BY <4>1, <4>3 DEF Filling, Fetching
    <3> QED
      BY <2>5, <3>4, <3>5
  <2> QED
    BY <1>2, <2>4, <2>5
<1>3. CASE mat = 20
  <2>1. CASE ~mdone
    <3>1. mat' = 20
      BY <1>3, <2>1, Advances
    <3> QED
      BY <1>3, <3>1, PollingStep DEF Filling, Fetching
  <2>2. CASE mdone
    <3>1. mcore.fsm = "Done" /\ mcore.control = 0 /\ ~menable /\ Queued(0, 0)
      BY <1>1, <1>3, <2>2 DEF CoreInv, Running, MaskedAccess
    <3>2. ~WritesKeyShare /\ ~WritesPlainShare /\ ~WritesMaskedCtrl /\ ~ReadsMaskedCipher
      BY <1>3 DEF WritesKeyShare, WritesPlainShare, WritesMaskedCtrl, ReadsMaskedCipher
    <3>3. mcore'.fsm = "Done" /\ mcore'.control = 0
      BY <3>1, <3>2 DEF Cycle, CoreCycle
    <3>4. ~menable'
      BY <3>1, <3>2, Zenon DEF Cycle
    <3>5. Len(mkeyFifo') = 0 /\ Len(mplainFifo') = 0
      BY <3>1, <3>2, OtherwiseStep DEF Queued
    <3>6. mat' = 21
      BY <1>3, <2>2, Advances
    <3> QED
      BY <3>3, <3>4, <3>5, <3>6 DEF Filling, Running, Fetching, Queued
  <2> QED
    BY <2>1, <2>2
<1>4. CASE mat \in 21..28
  <2>1. mcore.fsm = "Done" /\ mcore.control = mat - 21 /\ ~menable /\ Queued(0, 0)
    BY <1>4 DEF CoreInv, Fetching
  <2>2. ~WritesKeyShare /\ ~WritesPlainShare /\ ~WritesMaskedCtrl /\ ReadsMaskedCipher
    BY <1>1, <1>4 DEF WritesKeyShare, WritesPlainShare, WritesMaskedCtrl, ReadsMaskedCipher
  <2>3. mcore'.fsm = "Done" /\ mcore'.control = mat - 20
    BY <1>4, <2>1, <2>2 DEF Cycle, CoreCycle
  <2>4. ~menable'
    BY <2>1, <2>2, Zenon DEF Cycle
  <2>5. Len(mkeyFifo') = 0 /\ Len(mplainFifo') = 0
    BY <2>1, <2>2, OtherwiseStep DEF Queued
  <2>6. mat' = IF mat = 28 THEN 1 ELSE mat + 1
    BY <1>4, Advances
  <2> QED
    BY <1>1, <1>4, <2>3, <2>4, <2>5, <2>6 DEF Filling, Running, Fetching, Queued
<1> QED
  BY <1>2, <1>3, <1>4 DEF CoreInv, DriverOK

LEMMA CoreInvStep ==
  ASSUME CoreInv, MaskedNext
  PROVE  CoreInv' /\ Cycle
<1>1. Cycle
  BY CycleStep DEF MaskedNext, CoreInv
<1> QED
  BY <1>1, DriverStep, QuietStep, AccessStep DEF MaskedNext, CoreInv

-----------------------------------------------------------------------------
(* The random words.                                                       *)

\* The word the driver writes next, of the block at hand or of a new one.
LEMMA MaskWordIs ==
  ASSUME Numbered
  PROVE  /\ MaskWord = Position /\ Position \in Nat
         /\ Generator \in [counter : Nat, left : 1..16]
         /\ 16 * Generator.counter + (16 - Generator.left) = Position
         /\ \A i \in (16 - Generator.left)..15 : RandomBlock[i] = 16 * Generator.counter + i
         /\ Generator.left = IF prng.left = 0 THEN 16 ELSE prng.left
<1>1. /\ prng.counter \in Nat /\ prng.left \in 0..16
      /\ \A i \in (16 - prng.left)..15 : rng[i] = 16 * prng.counter + i
      /\ prng = [counter |-> prng.counter, left |-> prng.left]
  BY DEF Numbered
<1>2. CASE prng.left = 0
  <2>1. /\ Generator = [counter |-> prng.counter + 1, left |-> 16]
        /\ RandomBlock = chacha_block(prng.counter + 1)
    BY <1>2 DEF Generator, RandomBlock, Refill
  <2>2. ASSUME NEW i \in 0..15 PROVE RandomBlock[i] = 16 * (prng.counter + 1) + i
    BY <2>1, <2>2 DEF chacha_block
  <2> QED
    BY <1>1, <1>2, <2>1, <2>2 DEF MaskWord, Position
<1>3. CASE prng.left # 0
  <2>1. Generator = prng /\ RandomBlock = rng
    BY <1>3 DEF Generator, RandomBlock, Refill
  <2>2. 16 - prng.left \in (16 - prng.left)..15
    BY <1>1, <1>3
  <2> QED
    BY <1>1, <1>3, <2>1, <2>2 DEF MaskWord, Position
<1> QED
  BY <1>2, <1>3

\* The driver takes one word after the other, and skips some between two blocks.
LEMMA NumberedStep ==
  ASSUME CoreInv, Numbered, MaskedNext
  PROVE  /\ Numbered' /\ Position \in Nat /\ Position' \in Nat /\ Position' >= Position
         /\ WritesMask => Position' > Position
<1>1. mat \in 1..28 /\ words \in 0..269 /\ (mat # 17 => words = 0)
  BY DEF CoreInv, DriverOK
<1>2. /\ prng.counter \in Nat /\ prng.left \in 0..16
      /\ prng.left = (280 - Written) % 16
      /\ \A i \in (16 - prng.left)..15 : rng[i] = 16 * prng.counter + i
      /\ prng = [counter |-> prng.counter, left |-> prng.left]
  BY DEF Numbered
<1>3. Position \in Nat
  BY MaskWordIs
<1>4. CASE MaskedWait \/ MaskedStart \/ MaskedSetup
  <2>1. mat' = mat /\ words' = words /\ rng' = rng /\ prng' = prng /\ ~WritesMask
    BY <1>4 DEF MaskedWait, MaskedStart, MaskedSetup, maskedDriver, WritesMask, MaskedAccess
  <2> QED
    BY <1>3, <2>1 DEF Numbered, Written, Position
<1>5. CASE MaskedTransfer
  <2>1. /\ mat' = CASE mat = 17 /\ words + 1 < 270 -> 17
                   [] mat = 20 /\ ~mdone -> 20
                   [] OTHER -> (mat % 28) + 1
        /\ words' = IF mat = 17 THEN (words + 1) % 270 ELSE words
        /\ rng' = CASE mat = 17 -> RandomBlock
                    [] mat = 28 -> Overwritten(chacha_block(prng.counter))
                    [] OTHER -> rng
        /\ prng' = CASE mat = 17 -> [Generator EXCEPT !.left = @ - 1]
                     [] mat = 28 -> [prng EXCEPT !.left = HalfBlock]
                     [] OTHER -> prng
    BY <1>5 DEF MaskedTransfer, MaskedComplete, WordsPerBlock
  <2>2. CASE mat = 17
    <3> DEFINE g == Generator
    <3>1. /\ g \in [counter : Nat, left : 1..16]
          /\ 16 * g.counter + (16 - g.left) = Position
          /\ \A i \in (16 - g.left)..15 : RandomBlock[i] = 16 * g.counter + i
          /\ g.left = IF prng.left = 0 THEN 16 ELSE prng.left
      BY MaskWordIs
    <3>2. rng' = RandomBlock /\ prng' = [g EXCEPT !.left = @ - 1]
      BY <2>1, <2>2
    <3> HIDE DEF g
    <3>3. /\ prng' \in [counter : Nat, left : 0..16]
          /\ prng'.counter = g.counter /\ prng'.left = g.left - 1
      BY <3>1, <3>2
    <3>4. Written = words /\ Written' = words + 1
      <4>1. CASE words + 1 < 270
        <5>1. mat' = 17 /\ words' = words + 1
          BY <1>1, <2>1, <2>2, <4>1
        <5> QED
          BY <2>2, <5>1 DEF Written
      <4>2. CASE ~(words + 1 < 270)
        <5>1. mat' = 18 /\ words = 269
          BY <1>1, <2>1, <2>2, <4>2
        <5> QED
          BY <2>2, <5>1 DEF Written
      <4> QED
        BY <4>1, <4>2
    <3>5. prng'.left = (280 - Written') % 16
      <4>1. prng.left = (280 - words) % 16
        BY <1>2, <3>4
      <4>2. \A w \in 0..269 : LET m == (280 - w) % 16
                              IN (280 - (w + 1)) % 16 = IF m = 0 THEN 15 ELSE m - 1
        OBVIOUS
      <4> QED
        BY <1>1, <3>1, <3>3, <3>4, <4>1, <4>2
    <3>6. \A i \in (16 - prng'.left)..15 : rng'[i] = 16 * prng'.counter + i
      BY <3>1, <3>2, <3>3
    <3>7. Position' = Position + 1
      BY <3>1, <3>3 DEF Position
    <3> QED
      BY <1>3, <3>3, <3>5, <3>6, <3>7 DEF Numbered
  <2>3. CASE mat = 28
    <3>1. mat' = 1 /\ Written = 270 /\ Written' = 0
      BY <2>1, <2>3 DEF Written
    <3>2. /\ prng' \in [counter : Nat, left : 0..16]
          /\ prng'.counter = prng.counter /\ prng'.left = 8
      BY <1>2, <2>1, <2>3 DEF HalfBlock
    <3>3. ASSUME NEW i \in 8..15 PROVE rng'[i] = 16 * prng.counter + i
      BY <2>1, <2>3, <3>3 DEF Overwritten, chacha_block
    <3>4. prng.left = 10
      BY <1>2, <3>1
    <3>5. Position' = Position + 2
      BY <1>2, <3>2, <3>4 DEF Position
    <3>6. ~WritesMask
      BY <2>3 DEF WritesMask
    <3>7. Numbered'
      BY <3>1, <3>2, <3>3 DEF Numbered
    <3> QED
      BY <1>3, <3>5, <3>6, <3>7
  <2>4. CASE mat \notin {17, 28}
    <3>1. rng' = rng /\ prng' = prng /\ words' = 0 /\ ~WritesMask
      BY <1>1, <2>1, <2>4 DEF WritesMask
    <3>2. \/ mat \in 1..15 /\ mat' \in 1..16
          \/ mat = 16 /\ mat' = 17
          \/ mat \in 18..27 /\ mat' \in 18..28
      BY <1>1, <1>5, <2>4, Advances
    <3>3. Written' = Written
      <4>1. CASE mat \in 1..16
        <5>1. mat < 17 /\ (mat' < 17 \/ (mat' = 17 /\ ~(mat' < 17)))
          BY <3>2, <4>1
        <5> QED
          BY <3>1, <5>1 DEF Written
      <4>2. CASE mat \in 18..27
        <5>1. ~(mat < 17) /\ mat # 17 /\ ~(mat' < 17) /\ mat' # 17
          BY <3>2, <4>2
        <5> QED
          BY <5>1 DEF Written
      <4> QED
        BY <3>2, <4>1, <4>2
    <3> QED
      BY <1>3, <3>1, <3>3 DEF Numbered, Position
  <2> QED
    BY <2>2, <2>3, <2>4
<1> QED
  BY <1>4, <1>5 DEF MaskedNext

\* A cycle of the queue of random words.
MaskCycle ==
  /\ Stepped(Nat, maskFifo, maskFifo', 280, WritesMask, Position, TakesMask)
  /\ TakesMask => maskFifo # << >>
  /\ used' = IF TakesMask THEN Head(maskFifo) ELSE used

LEMMA MaskCycleStep ==
  ASSUME Numbered, Ordered, MaskedPeripheralNext
  PROVE  MaskCycle
<1>1. /\ maskFifo' = QueueNext(maskFifo, MaskDepth, WritesMask, MaskWord, TakesMask)
      /\ used' = IF TakesMask THEN Head(maskFifo) ELSE used
  BY DEF MaskedPeripheralNext
<1>2. MaskWord = Position /\ Position \in Nat
  BY MaskWordIs
<1>3. /\ WritesMask \in BOOLEAN /\ TakesMask \in BOOLEAN /\ (TakesMask => maskFifo # << >>)
      /\ maskFifo \in Seq(Nat)
  BY DEF WritesMask, TakesMask, Ordered
<1>4. MaskDepth \in Nat /\ MaskDepth = 280
  BY DEF MaskDepth
<1>5. Stepped(Nat, maskFifo, QueueNext(maskFifo, MaskDepth, WritesMask, Position, TakesMask),
            MaskDepth, WritesMask, Position, TakesMask)
  BY <1>2, <1>3, <1>4, QueueStep
<1> QED
  BY <1>1, <1>2, <1>3, <1>4, <1>5 DEF MaskCycle

LEMMA OrderedStep ==
  ASSUME CoreInv, Numbered, Ordered, MaskedNext
  PROVE  Ordered'
<1> DEFINE gone == IF TakesMask THEN 1 ELSE 0
<1>1. MaskCycle
  BY MaskCycleStep DEF MaskedNext
<1>2. /\ Position \in Nat /\ Position' \in Nat /\ Position' >= Position
      /\ WritesMask => Position' > Position
  BY NumberedStep
<1>3. /\ maskFifo' \in Seq(Nat)
      /\ Len(maskFifo') = Len(maskFifo) - gone + (IF WritesMask /\ Len(maskFifo) < 280 THEN 1 ELSE 0)
      /\ \A i \in 1..Len(maskFifo') :
           maskFifo'[i] = IF i + gone <= Len(maskFifo) THEN maskFifo[i + gone] ELSE Position
  BY <1>1 DEF MaskCycle, Stepped
<1>4. /\ maskFifo \in Seq(Nat) /\ used \in Nat /\ used < Position
      /\ \A i \in 1..Len(maskFifo) : used < maskFifo[i] /\ maskFifo[i] < Position
      /\ \A i, j \in 1..Len(maskFifo) : i < j => maskFifo[i] < maskFifo[j]
  BY DEF Ordered
<1>5. /\ gone \in 0..1 /\ Len(maskFifo) \in Nat /\ Len(maskFifo') \in Nat
      /\ gone = 1 => Len(maskFifo) >= 1 /\ used' = maskFifo[1]
      /\ gone = 0 => used' = used
  <2>1. CASE TakesMask
    <3>1. maskFifo # << >> /\ used' = Head(maskFifo)
      BY <1>1, <2>1 DEF MaskCycle
    <3> QED
      BY <1>3, <1>4, <2>1, <3>1
  <2>2. CASE ~TakesMask
    <3>1. used' = used
      BY <1>1, <2>2 DEF MaskCycle
    <3> QED
      BY <1>3, <1>4, <2>2, <3>1
  <2> QED
    BY <2>1, <2>2
<1> HIDE DEF gone
\* A word beyond those that were there is the one being written.
<1>6. ASSUME NEW i \in 1..Len(maskFifo')
      PROVE  /\ i + gone <= Len(maskFifo) => i + gone \in 1..Len(maskFifo) /\ maskFifo'[i] = maskFifo[i + gone]
             /\ ~(i + gone <= Len(maskFifo)) =>
                  maskFifo'[i] = Position /\ WritesMask /\ i = Len(maskFifo')
  BY <1>3, <1>5
<1>7. used' \in Nat /\ used' < Position'
  <2>1. CASE gone = 1
    <3>1. 1 \in 1..Len(maskFifo)
      BY <1>5, <2>1
    <3>2. maskFifo[1] \in Nat /\ maskFifo[1] < Position
      BY <1>4, <3>1
    <3> QED
      BY <1>2, <1>5, <2>1, <3>2
  <2>2. CASE gone = 0
    BY <1>2, <1>4, <1>5, <2>2
  <2> QED
    BY <1>5, <2>1, <2>2
<1>8. ASSUME NEW i \in 1..Len(maskFifo')
      PROVE  used' < maskFifo'[i] /\ maskFifo'[i] < Position'
  <2>1. CASE i + gone <= Len(maskFifo)
    <3>1. i + gone \in 1..Len(maskFifo) /\ maskFifo'[i] = maskFifo[i + gone]
      BY <1>6, <2>1
    <3>2. /\ maskFifo[i + gone] \in Nat /\ used < maskFifo[i + gone]
          /\ maskFifo[i + gone] < Position
      BY <1>4, <3>1
    <3>3. gone = 1 => maskFifo[1] < maskFifo[i + gone]
      <4>1. gone = 1 => 1 \in 1..Len(maskFifo) /\ 1 < i + gone
        BY <1>5
      <4> QED
        BY <1>4, <3>1, <4>1
    <3> QED
      BY <1>2, <1>5, <3>1, <3>2, <3>3
  <2>2. CASE ~(i + gone <= Len(maskFifo))
    <3>1. maskFifo'[i] = Position /\ WritesMask
      BY <1>6, <2>2
    <3>2. used' < Position
      <4>1. CASE gone = 1
        <5>1. 1 \in 1..Len(maskFifo)
          BY <1>5, <4>1
        <5> QED
          BY <1>4, <1>5, <4>1, <5>1
      <4>2. CASE gone = 0
        BY <1>4, <1>5, <4>2
      <4> QED
        BY <1>5, <4>1, <4>2
    <3> QED
      BY <1>2, <3>1, <3>2
  <2> QED
    BY <2>1, <2>2
<1>9. ASSUME NEW i \in 1..Len(maskFifo'), NEW j \in 1..Len(maskFifo'), i < j
      PROVE  maskFifo'[i] < maskFifo'[j]
  <2>1. i + gone <= Len(maskFifo)
    BY <1>5, <1>6, <1>9
  <2>2. i + gone \in 1..Len(maskFifo) /\ maskFifo'[i] = maskFifo[i + gone]
    BY <1>6, <2>1
  <2>3. CASE j + gone <= Len(maskFifo)
    <3>1. j + gone \in 1..Len(maskFifo) /\ maskFifo'[j] = maskFifo[j + gone]
      BY <1>6, <2>3
    <3>2. i + gone < j + gone
      BY <1>5, <1>9
    <3> QED
      BY <1>4, <2>2, <3>1, <3>2
  <2>4. CASE ~(j + gone <= Len(maskFifo))
    BY <1>4, <1>6, <2>2, <2>4
  <2> QED
    BY <2>3, <2>4
<1> QED
  BY <1>3, <1>7, <1>8, <1>9 DEF Ordered

LEMMA Supplies ==
  \A n, m \in Nat : \A r \in 1..11 : \A c \in 0..24 :
    n + 25 * (r - 1) + c >= 270 =>
      /\ r < 11 => n > 0
      /\ m >= n - 1 /\ c = 24 => m + 25 * ((r + 1) - 1) + 0 >= 270
      /\ m >= n - 1 => m + 25 * (r - 1) + (c + 1) >= 270
OBVIOUS

\* The queue loses at most a word in a cycle, and none while it is filled.
LEMMA SuppliedStep ==
  ASSUME CoreInv, Supplied, Numbered, Ordered, MaskedNext
  PROVE  Supplied'
<1> DEFINE n == Len(maskFifo)
<1>1. CoreInv' /\ Cycle
  BY CoreInvStep
<1>2. MaskCycle
  BY MaskCycleStep DEF MaskedNext
<1>3. /\ n \in Nat /\ Len(maskFifo') \in Nat
      /\ Len(maskFifo') = n - (IF TakesMask THEN 1 ELSE 0) + (IF WritesMask /\ n < 280 THEN 1 ELSE 0)
  BY <1>2 DEF MaskCycle, Stepped, Ordered
<1> HIDE DEF n
<1>4. Len(maskFifo') >= n - 1
  BY <1>3
<1>5. ~menable \/ Len(mkeyFifo) > 0 => ~TakesMask
  <2>1. Len(mkeyFifo) > 0 => mkeyFifo # << >>
    OBVIOUS
  <2> QED
    BY <2>1 DEF TakesMask
<1>6. mat \in 1..28 /\ words \in 0..269 /\ mat' \in 1..28
  BY <1>1 DEF CoreInv, DriverOK
<1>7. CASE mcore'.fsm = "Round"
  <2>1. mat = 20
    BY <1>1, <1>6, <1>7 DEF CoreInv, DriverOK, Filling, Running, Fetching, Cycle, CoreCycle
  <2>2. mat' \in 20..21
    BY <2>1, Advances DEF MaskedNext, MaskedWait, MaskedStart, MaskedSetup, maskedDriver
  <2>3. mat' = 20
    BY <1>1, <1>7, <2>2 DEF CoreInv, Fetching
  <2>4. CASE mcore.fsm = "Init"
    <3>1. /\ mcore.control = 7 /\ mcore.round = 1 /\ mcore'.control = 0 /\ mcore'.round = 1
          /\ Len(mkeyFifo) = 1
      <4>1. /\ mcore.control \in 0..7 /\ mcore.round = 1 /\ Len(mkeyFifo) = 8 - mcore.control
        BY <2>1, <2>4 DEF CoreInv, Running, Queued
      <4>2. mcore.control = 7 /\ mcore'.control = 0 /\ mcore'.round = mcore.round
        BY <1>1, <1>7, <2>4 DEF Cycle, CoreCycle
      <4> QED
        BY <4>1, <4>2
    <3>2. n >= 270 /\ ~TakesMask
      BY <1>5, <2>1, <2>4, <3>1 DEF Supplied, n
    <3>3. Len(maskFifo') >= 270
      BY <1>3, <3>2
    <3> QED
      BY <1>3, <1>7, <2>3, <3>1, <3>3 DEF Supplied
  <2>5. CASE mcore.fsm = "Round"
    <3>1. /\ mcore.control \in 0..24 /\ mcore.round \in 1..11
          /\ mcore.round = 11 => mcore.control \in 0..15
          /\ n + 25 * (mcore.round - 1) + mcore.control >= 270
      BY <2>5 DEF Supplied, n, CoreInv, DriverOK
    <3>2. /\ ~(mcore.round = 11 /\ mcore.control = 15)
          /\ IF mcore.control = 24 THEN mcore'.control = 0 /\ mcore'.round = (mcore.round % 11) + 1
             ELSE mcore'.control = mcore.control + 1 /\ mcore'.round = mcore.round
      BY <1>1, <1>7, <2>5 DEF Cycle, CoreCycle
    <3>3. mcore.round = 11 => mcore.control < 15
      BY <3>1, <3>2
    <3>4. CASE mcore.control = 24
      <4>1. mcore.round \in 1..10 /\ mcore'.control = 0 /\ mcore'.round = mcore.round + 1
        BY <3>1, <3>2, <3>3, <3>4
      <4>2. Len(maskFifo') + 25 * ((mcore.round + 1) - 1) + 0 >= 270
        BY <1>3, <1>4, <3>1, <3>4, Supplies, Zenon
      <4>3. Len(maskFifo') + 25 * (mcore'.round - 1) + mcore'.control >= 270
        BY <4>1, <4>2, Zenon
      <4>4. mcore'.control \in IF mcore'.round = 11 THEN 0..15 ELSE 0..24
        BY <4>1
      <4> QED
        BY <1>7, <2>3, <4>3, <4>4 DEF Supplied
    <3>5. CASE mcore.control # 24
      <4>1. mcore'.control = mcore.control + 1 /\ mcore'.round = mcore.round
        BY <3>2, <3>5
      <4>2. mcore'.control \in IF mcore'.round = 11 THEN 0..15 ELSE 0..24
        BY <3>1, <3>3, <3>5, <4>1
      <4>3. Len(maskFifo') + 25 * (mcore'.round - 1) + mcore'.control >= 270
        <5>1. Len(maskFifo') + 25 * (mcore.round - 1) + (mcore.control + 1) >= 270
          BY <1>3, <1>4, <3>1, Supplies, Zenon
        <5> QED
          BY <4>1, <5>1, Zenon
      <4> QED
        BY <1>7, <2>3, <4>2, <4>3 DEF Supplied
    <3> QED
      BY <3>4, <3>5
  <2>6. mcore.fsm \in {"Init", "Round"}
    BY <1>1, <1>7, <2>1 DEF CoreInv, DriverOK, Cycle, CoreCycle
  <2> QED
    BY <2>4, <2>5, <2>6
<1>8. CASE mcore'.fsm # "Round"
  <2>1. CASE mat' = 17
    <3>1. ~menable /\ ~TakesMask
      <4>1. mat \in 1..19
        BY <1>6, <2>1, Advances DEF MaskedNext, MaskedWait, MaskedStart, MaskedSetup, maskedDriver
      <4> QED
        BY <1>5, <4>1 DEF CoreInv, Filling
    <3>2. Len(maskFifo') >= words'
      <4>1. CASE MaskedWait \/ MaskedStart \/ MaskedSetup
        <5>1. mat' = mat /\ words' = words
          BY <4>1 DEF MaskedWait, MaskedStart, MaskedSetup, maskedDriver
        <5> QED
          BY <1>3, <1>6, <2>1, <3>1, <5>1 DEF Supplied, n
      <4>2. CASE MaskedTransfer
        <5>1. MaskedAccess /\ words' = IF mat = 17 THEN (words + 1) % 270 ELSE words
          BY <4>2, Advances DEF MaskedComplete, WordsPerBlock
        <5>2. mat = 16 \/ mat = 17
          BY <1>6, <2>1, <4>2, Advances
        <5>3. CASE mat = 16
          BY <1>3, <5>1, <5>3 DEF CoreInv, DriverOK
        <5>4. CASE mat = 17
          <6>1. n >= words /\ WritesMask /\ words' = (words + 1) % 270
            BY <5>1, <5>4 DEF Supplied, WritesMask, n
          <6> QED
            BY <1>3, <1>6, <3>1, <6>1
        <5> QED
          BY <5>2, <5>3, <5>4
      <4> QED
        BY <4>1, <4>2 DEF MaskedNext
    <3> QED
      BY <1>8, <2>1, <3>2 DEF Supplied
  <2>2. CASE mat' \in 18..19 \/ (mat' = 20 /\ mcore'.fsm \in {"Idle", "Init"})
    <3>1. Len(maskFifo') >= 270
      <4>1. CASE mat = 17
        <5>1. MaskedTransfer /\ mat' # 17
          BY <2>2, <4>1 DEF MaskedNext, MaskedWait, MaskedStart, MaskedSetup, maskedDriver
        <5>2. words = 269 /\ MaskedAccess
          <6>1. MaskedAccess /\ MaskedComplete
            BY <5>1, Advances
          <6>2. ~(words + 1 < 270)
            BY <4>1, <5>1, <6>1 DEF MaskedComplete, WordsPerBlock
          <6> QED
            BY <1>6, <6>1, <6>2
        <5>3. n >= 269 /\ WritesMask /\ ~TakesMask
          BY <1>5, <4>1, <5>2 DEF Supplied, WritesMask, n, CoreInv, Filling
        <5> QED
          BY <1>3, <5>3
      <4>2. CASE mat \in 18..19
        <5>1. n >= 270 /\ ~TakesMask
          BY <1>5, <4>2 DEF Supplied, n, CoreInv, Filling
        <5> QED
          BY <1>3, <5>1
      <4>3. CASE mat = 20
        <5>1. mcore.fsm \in {"Idle", "Init"} /\ Len(mkeyFifo) > 0
          <6>1. mat' = 20 /\ mcore'.fsm \in {"Idle", "Init"}
            BY <2>2, <4>3, Advances DEF MaskedNext, MaskedWait, MaskedStart, MaskedSetup, maskedDriver
          <6>2. mcore.fsm \in {"Idle", "Init"}
            <7>1. mcore.fsm # "Round"
              BY <1>1, <6>1 DEF Cycle, CoreCycle
            <7>2. mcore.fsm # "Done"
              BY <1>1, <4>3, <6>1 DEF CoreInv, Running, Cycle, CoreCycle
            <7> QED
              BY <7>1, <7>2 DEF CoreInv, DriverOK
          <6>3. \/ Len(mkeyFifo) = 8
                \/ mcore.control \in 0..7 /\ Len(mkeyFifo) = 8 - mcore.control
            BY <4>3, <6>2 DEF CoreInv, Running, Queued
          <6>4. Len(mkeyFifo) > 0
            BY <6>3
          <6> QED
            BY <6>2, <6>4
        <5>2. n >= 270 /\ ~TakesMask
          BY <1>5, <4>3, <5>1 DEF Supplied, n
        <5> QED
          BY <1>3, <5>2
      <4>4. mat \in 17..20
        BY <1>6, <2>2, Advances DEF MaskedNext, MaskedWait, MaskedStart, MaskedSetup, maskedDriver
      <4> QED
        BY <4>1, <4>2, <4>3, <4>4
    <3>2. mat' # 17
      BY <2>2
    <3> QED
      BY <1>8, <3>1, <3>2 DEF Supplied
  <2> QED
    BY <1>8, <2>1, <2>2 DEF Supplied
<1> QED
  BY <1>7, <1>8

LEMMA MaskInvStep == MaskInv /\ [MaskedNext]_maskedVars => MaskInv'
<1> SUFFICES ASSUME MaskInv, [MaskedNext]_maskedVars PROVE MaskInv'
  OBVIOUS
<1>1. CASE UNCHANGED maskedVars
  <2>1. UNCHANGED <<mcore, menable, mdone, mkeyFifo, mplainFifo, maskFifo, used,
                    mat, mbus, words, rng, prng>>
    BY <1>1 DEF maskedVars, maskedRegs, maskedDriver
  <2>2. DriverOK'
    BY <2>1 DEF MaskInv, CoreInv, DriverOK, IsSequence
  <2>3. Filling' /\ Running' /\ Fetching'
    BY <2>1 DEF MaskInv, CoreInv, Filling, Running, Fetching, Queued
  <2>4. Supplied'
    BY <2>1 DEF MaskInv, Supplied
  <2>5. Numbered' /\ Position' = Position
    BY <2>1 DEF MaskInv, Numbered, Written, Position
  <2>6. Ordered'
    BY <2>1, <2>5 DEF MaskInv, Ordered
  <2> QED
    BY <2>2, <2>3, <2>4, <2>5, <2>6 DEF MaskInv, CoreInv
<1>2. CASE MaskedNext
  BY <1>2, CoreInvStep, SuppliedStep, NumberedStep, OrderedStep DEF MaskInv
<1> QED
  BY <1>1, <1>2

\* In every cycle in which the S-box works there is a random word for it, which it has
\* not had before and which comes from ChaCha (main.c:151-161): for any blocks, any
\* number of them and any delays of the CPU, although the driver writes 270 words for
\* a block whether or not the queue still holds some, and the rounds take 266 cycles.
THEOREM MasksAreFresh == JobsSpec => []FreshMasks
<1>1. MaskInv => FreshMasks
  <2> SUFFICES ASSUME MaskInv PROVE FreshMasks
    OBVIOUS
  <2>1. mcore.fsm = "Round" /\ mcore.round < 11 => maskFifo # << >>
    <3>1. mcore.fsm = "Round" /\ mcore.round < 11 => Len(maskFifo) > 0
      <4>1. Len(maskFifo) \in Nat /\ mcore.round \in 1..11
        BY DEF MaskInv, CoreInv, DriverOK, Ordered
      <4>2. mcore.fsm = "Round" /\ mcore.round < 11 =>
              mcore.control \in 0..24 /\ Len(maskFifo) + 25 * (mcore.round - 1) + mcore.control >= 270
        <5>1. mcore.round < 11 => mcore.round # 11
          BY <4>1
        <5>2. mcore.fsm = "Round" /\ mcore.round # 11 =>
                mcore.control \in 0..24 /\ Len(maskFifo) + 25 * (mcore.round - 1) + mcore.control >= 270
          BY DEF MaskInv, Supplied
        <5> QED
          BY <5>1, <5>2
      <4> QED
        BY <4>1, <4>2, Supplies
    <3> QED
      BY <3>1
  <2> DEFINE q == << used >> \o maskFifo
  <2>2. ASSUME NEW i \in 1..Len(q) - 1 PROVE q[i] < q[i + 1]
    <3>1. /\ maskFifo \in Seq(Nat) /\ << used >> \in Seq(Nat) /\ Len(<< used >>) = 1
          /\ << used >>[1] = used
      BY DEF MaskInv, Ordered
    <3>2. /\ Len(q) = 1 + Len(maskFifo)
          /\ \A j \in 1..1 + Len(maskFifo) : q[j] = IF j <= 1 THEN used ELSE maskFifo[j - 1]
      BY <3>1, ConcatProperties
    <3> HIDE DEF q
    <3>3. i \in 1..Len(maskFifo) /\ i + 1 \in 1..1 + Len(maskFifo)
      BY <2>2, <3>1, <3>2
    <3>4. q[i + 1] = maskFifo[i]
      BY <3>2, <3>3
    <3>5. CASE i = 1
      BY <3>2, <3>3, <3>4, <3>5 DEF MaskInv, Ordered
    <3>6. CASE i # 1
      <4>1. q[i] = maskFifo[i - 1] /\ i - 1 \in 1..Len(maskFifo)
        BY <3>1, <3>2, <3>3, <3>6
      <4> QED
        BY <3>3, <3>4, <4>1 DEF MaskInv, Ordered
    <3> QED
      BY <3>5, <3>6
  <2> QED
    BY <2>1, <2>2 DEF FreshMasks
<1>2. JobsInit => MaskedInit
  BY DEF JobsInit
<1>3. [JobsNext]_bothVars => [MaskedNext]_maskedVars
  BY DEF JobsNext, bothVars, maskedVars
<1> QED
  BY <1>1, <1>2, <1>3, InitInv, MaskInvStep, PTL DEF JobsSpec

-----------------------------------------------------------------------------
(* The sum of two shares.  All that the core does to a share but the S-box *)
(* is linear, so that the sum goes through what AES.v would do to it.      *)

Joined(a, b) == [n \in Cell |-> Xor(a[n], b[n])]

LEMMA XorSwaps ==
  ASSUME NEW a, NEW b, NEW c, NEW d
  PROVE  Xor(Xor(a, b), Xor(c, d)) = Xor(Xor(a, c), Xor(b, d))
<1>1. ASSUME NEW i PROVE i \in Xor(Xor(a, b), Xor(c, d)) <=> i \in Xor(Xor(a, c), Xor(b, d))
  BY DEF Xor
<1> QED BY <1>1 DEF Xor

LEMMA XtimeSum ==
  ASSUME NEW a \in Byte, NEW b \in Byte
  PROVE  Xtime(Xor(a, b)) = Xor(Xtime(a), Xtime(b))
<1> DEFINE Up(x) == {i + 1 : i \in x \ {7}}
           Fold(x) == IF 7 \in x THEN {0, 1, 3, 4} ELSE {}
<1>1. Up(Xor(a, b)) = Xor(Up(a), Up(b))
  <2>1. ASSUME NEW x \in Byte, NEW i PROVE i \in Up(x) <=> i \in 1..7 /\ i - 1 \in x
    <3>1. ASSUME i \in Up(x) PROVE i \in 1..7 /\ i - 1 \in x
      <4>1. PICK j \in x \ {7} : i = j + 1
        BY <3>1
      <4>2. j \in 0..7 /\ j # 7
        BY DEF Byte
      <4> QED BY <4>1, <4>2
    <3>2. ASSUME i \in 1..7, i - 1 \in x PROVE i \in Up(x)
      <4>1. i - 1 \in x \ {7} /\ i = (i - 1) + 1
        BY <3>2
      <4> QED BY <4>1
    <3> QED BY <3>1, <3>2
  <2>2. Xor(a, b) \in Byte
    BY XorTyped
  <2> HIDE DEF Up
  <2>3. ASSUME NEW i PROVE i \in Up(Xor(a, b)) <=> i \in Xor(Up(a), Up(b))
    <3>1. /\ i \in Up(Xor(a, b)) <=> i \in 1..7 /\ i - 1 \in Xor(a, b)
          /\ i \in Up(a) <=> i \in 1..7 /\ i - 1 \in a
          /\ i \in Up(b) <=> i \in 1..7 /\ i - 1 \in b
      BY <2>1, <2>2
    <3> QED BY <3>1, Zenon DEF Xor
  <2> QED BY <2>3
<1>2. Fold(Xor(a, b)) = Xor(Fold(a), Fold(b))
  <2>1. 7 \in Xor(a, b) <=> ~(7 \in a <=> 7 \in b)
    BY DEF Xor
  <2> QED BY <2>1, XorGroup
<1>3. \A x : Xtime(x) = Xor(Up(x), Fold(x))
  BY DEF Xtime
<1> HIDE DEF Up, Fold
<1> QED BY <1>1, <1>2, <1>3, XorSwaps

LEMMA MixedSum ==
  ASSUME NEW a \in [0..3 -> Byte], NEW b \in [0..3 -> Byte]
  PROVE  Xor(Mixed(a[0], a[1], a[2], a[3]), Mixed(b[0], b[1], b[2], b[3]))
           = Mixed(Xor(a[0], b[0]), Xor(a[1], b[1]), Xor(a[2], b[2]), Xor(a[3], b[3]))
<1>1. \A i \in 0..3 : Xtime(Xor(a[i], b[i])) = Xor(Xtime(a[i]), Xtime(b[i]))
  BY XtimeSum
<1> DEFINE p == Xtime(a[0])  q == Xor(Xtime(a[1]), a[1])  s == Xor(a[2], a[3])
           u == Xtime(b[0])  v == Xor(Xtime(b[1]), b[1])  w == Xor(b[2], b[3])
<1>2. /\ Xtime(Xor(a[0], b[0])) = Xor(p, u)
      /\ Xor(Xtime(Xor(a[1], b[1])), Xor(a[1], b[1])) = Xor(q, v)
      /\ Xor(Xor(a[2], b[2]), Xor(a[3], b[3])) = Xor(s, w)
  BY <1>1, XorSwaps
<1>3. /\ Mixed(a[0], a[1], a[2], a[3]) = Xor(p, Xor(q, s))
      /\ Mixed(b[0], b[1], b[2], b[3]) = Xor(u, Xor(v, w))
  BY DEF Mixed, XorAll
<1>4. Mixed(Xor(a[0], b[0]), Xor(a[1], b[1]), Xor(a[2], b[2]), Xor(a[3], b[3]))
        = Xor(Xor(p, u), Xor(Xor(q, v), Xor(s, w)))
  BY <1>2 DEF Mixed, XorAll
<1> HIDE DEF p, q, s, u, v, w
<1> QED BY <1>3, <1>4, XorSwaps

LEMMA MixColumnSum ==
  ASSUME NEW a \in Text, NEW b \in Text, NEW mix \in BOOLEAN
  PROVE  Joined(MixColumn(a, mix), MixColumn(b, mix)) = MixColumn(Joined(a, b), mix)
<1> DEFINE both == Joined(a, b)
<1>1. \A n \in Cell : both[n] = Xor(a[n], b[n])
  BY DEF Joined
<1>2. ASSUME NEW n \in Cell
      PROVE  Xor(MixColumn(a, mix)[n], MixColumn(b, mix)[n]) = MixColumn(both, mix)[n]
  <2>1. CASE Col(n) < 3
    <3>1. n + 4 \in Cell
      BY <2>1, CellArith
    <3> HIDE DEF both
    <3> QED BY <1>1, <2>1, <3>1 DEF MixColumn
  <2>2. CASE ~(Col(n) < 3)
    <3> DEFINE r == Row(n)
               x == [i \in 0..3 |-> a[(r + i) % 4]]
               y == [i \in 0..3 |-> b[(r + i) % 4]]
    <3>1. r \in 0..3 /\ r \in Cell
      BY CellArith DEF Cell
    <3>2. ASSUME NEW i \in 0..3 PROVE (r + i) % 4 \in Cell
      BY <3>1 DEF Cell
    <3>3. x \in [0..3 -> Byte] /\ y \in [0..3 -> Byte]
      BY <3>2 DEF Text
    <3>4. \A i \in 0..3 : Xor(x[i], y[i]) = both[(r + i) % 4]
      BY <1>1, <3>2
    <3>5. /\ MixedByte(a, r) = Mixed(x[0], x[1], x[2], x[3])
          /\ MixedByte(b, r) = Mixed(y[0], y[1], y[2], y[3])
      BY DEF MixedByte, Mixed
    <3>6. MixedByte(both, r) = Mixed(both[(r + 0) % 4], both[(r + 1) % 4],
                                     both[(r + 2) % 4], both[(r + 3) % 4])
      BY DEF MixedByte, Mixed
    <3> HIDE DEF x, y, both
    <3>7. Xor(MixedByte(a, r), MixedByte(b, r)) = MixedByte(both, r)
      BY <3>3, <3>4, <3>5, <3>6, MixedSum
    <3> HIDE DEF r
    <3> QED BY <1>1, <2>2, <3>1, <3>7 DEF MixColumn, r
  <2> QED BY <2>1, <2>2
<1> HIDE DEF both
<1> QED BY <1>2 DEF Joined, MixColumn, both

LEMMA ShiftSum ==
  ASSUME NEW a, NEW b, NEW x, NEW y
  PROVE  Joined(Shift(a, x), Shift(b, y)) = Shift(Joined(a, b), Xor(x, y))
<1>1. ASSUME NEW n \in Cell
      PROVE  Xor(Shift(a, x)[n], Shift(b, y)[n]) = Shift(Joined(a, b), Xor(x, y))[n]
  <2>1. n < 15 => n + 1 \in Cell
    BY DEF Cell
  <2> QED BY <2>1 DEF Shift, Joined
<1> QED BY <1>1 DEF Joined, Shift

LEMMA ShiftRowsSum ==
  ASSUME NEW a, NEW b PROVE Joined(ShiftRows(a), ShiftRows(b)) = ShiftRows(Joined(a, b))
<1>1. \A n \in Cell : (n + 4 * Row(n)) % 16 \in Cell
  BY CellArith
<1> QED BY <1>1 DEF Joined, ShiftRows

\* The state, by the phase of the round.
LEMMA StateShareIs ==
  ASSUME NEW c
  PROVE  /\ InRound(c, 0, 19) => \A t, u, v : StateShare(c, t, u, v) =
              Shift(t, IF FinalKeyAdd(c) THEN Xor(t[0], u[0]) ELSE v)
         /\ InRound(c, 20, 20) => \A t, u, v : StateShare(c, t, u, v) = ShiftRows(t)
         /\ InRound(c, 21, 24) => \A t, u, v : StateShare(c, t, u, v) = MixColumn(t, ~FinalRound(c))
         /\ ~InRound(c, 0, 19) /\ ~InRound(c, 20, 20) /\ ~InRound(c, 21, 24) =>
              \A t, u, v : StateShare(c, t, u, v) = t
<1>1. ~(InRound(c, 0, 19) /\ InRound(c, 20, 20))
  BY DEF InRound
<1>2. ~(InRound(c, 0, 19) /\ InRound(c, 21, 24)) /\ ~(InRound(c, 20, 20) /\ InRound(c, 21, 24))
  BY DEF InRound
<1> QED BY <1>1, <1>2 DEF StateShare

\* The state: a cycle of the two shares is one of their sum.
LEMMA StateSum ==
  ASSUME NEW a \in Text, NEW b \in Text, NEW k, NEW l, NEW x, NEW y, NEW c
  PROVE  Joined(StateShare(c, a, k, x), StateShare(c, b, l, y))
           = StateShare(c, Joined(a, b), Joined(k, l), Xor(x, y))
<1> DEFINE In(t, u, v) == IF FinalKeyAdd(c) THEN Xor(t[0], u[0]) ELSE v
<1>1. /\ InRound(c, 0, 19) => \A t, u, v : StateShare(c, t, u, v) = Shift(t, In(t, u, v))
      /\ InRound(c, 20, 20) => \A t, u, v : StateShare(c, t, u, v) = ShiftRows(t)
      /\ InRound(c, 21, 24) => \A t, u, v : StateShare(c, t, u, v) = MixColumn(t, ~FinalRound(c))
      /\ ~InRound(c, 0, 19) /\ ~InRound(c, 20, 20) /\ ~InRound(c, 21, 24) =>
           \A t, u, v : StateShare(c, t, u, v) = t
  BY StateShareIs
<1>2. CASE InRound(c, 0, 19)
  <2> DEFINE p == In(a, k, x)
             q == In(b, l, y)
             s == In(Joined(a, b), Joined(k, l), Xor(x, y))
  <2>1. /\ StateShare(c, a, k, x) = Shift(a, p) /\ StateShare(c, b, l, y) = Shift(b, q)
        /\ StateShare(c, Joined(a, b), Joined(k, l), Xor(x, y)) = Shift(Joined(a, b), s)
    BY <1>1, <1>2
  <2>2. Xor(p, q) = s
    <3>1. 0 \in Cell
      BY DEF Cell
    <3>2. Joined(a, b)[0] = Xor(a[0], b[0]) /\ Joined(k, l)[0] = Xor(k[0], l[0])
      BY <3>1 DEF Joined
    <3> HIDE DEF p, q, s
    <3>3. CASE FinalKeyAdd(c)
      <4>1. p = Xor(a[0], k[0]) /\ q = Xor(b[0], l[0]) /\ s = Xor(Xor(a[0], b[0]), Xor(k[0], l[0]))
        BY <3>2, <3>3 DEF p, q, s
      <4> QED BY <4>1, XorSwaps
    <3>4. CASE ~FinalKeyAdd(c)
      BY <3>4 DEF p, q, s
    <3> QED BY <3>3, <3>4
  <2> HIDE DEF p, q, s
  <2> QED BY <2>1, <2>2, ShiftSum
<1> HIDE DEF In
<1>3. CASE InRound(c, 20, 20)
  BY <1>1, <1>3, ShiftRowsSum
<1>4. CASE InRound(c, 21, 24)
  <2> DEFINE mix == ~FinalRound(c)
  <2>1. mix \in BOOLEAN
    BY Zenon DEF FinalRound
  <2>2. \A t, u, v : StateShare(c, t, u, v) = MixColumn(t, mix)
    BY <1>1, <1>4
  <2> HIDE DEF mix
  <2> QED BY <2>1, <2>2, MixColumnSum
<1>5. CASE ~InRound(c, 0, 19) /\ ~InRound(c, 20, 20) /\ ~InRound(c, 21, 24)
  BY <1>1, <1>5
<1> QED BY <1>2, <1>3, <1>4, <1>5

\* The key, by the phase of the round.
Turns(key) == [n \in Cell |-> IF Col(n) < 3 THEN key[n] ELSE key[12 + ((n + 1) % 4)]]
Adds(key, out) ==
  [n \in Cell |-> IF n < 3 THEN key[n + 1] ELSE IF n = 3 THEN Xor(out, key[0]) ELSE key[n]]

LEMMA KeyShareIs ==
  ASSUME NEW c
  PROVE  /\ InRound(c, 0, 15) => \A k, x : KeyShare(c, k, x) = KeyChain(c, k)
         /\ InRound(c, 16, 19) => \A k, x : KeyShare(c, k, x) = Turns(k)
         /\ InRound(c, 20, 23) => \A k, x : KeyShare(c, k, x) = Adds(k, x)
         /\ ~InRound(c, 0, 15) /\ ~InRound(c, 16, 19) /\ ~InRound(c, 20, 23) =>
              \A k, x : KeyShare(c, k, x) = k
<1>1. ~(InRound(c, 0, 15) /\ InRound(c, 16, 19))
  BY DEF InRound
<1>2. ~(InRound(c, 0, 15) /\ InRound(c, 20, 23)) /\ ~(InRound(c, 16, 19) /\ InRound(c, 20, 23))
  BY DEF InRound
<1> QED BY <1>1, <1>2 DEF KeyShare, Turns, Adds

LEMMA KeySum ==
  ASSUME NEW a, NEW b, NEW x, NEW y, NEW c
  PROVE  Joined(KeyShare(c, a, x), KeyShare(c, b, y)) = KeyShare(c, Joined(a, b), Xor(x, y))
<1> DEFINE both == Joined(a, b)
<1>1. \A n \in Cell : both[n] = Xor(a[n], b[n])
  BY DEF Joined
<1>2. CASE InRound(c, 0, 15)
  <2>1. ASSUME NEW n \in Cell PROVE Xor(KeyChain(c, a)[n], KeyChain(c, b)[n]) = KeyChain(c, both)[n]
    <3>1. (n + 1) % 16 \in Cell /\ 0 \in Cell /\ 4 \in Cell
      BY CellArith DEF Cell
    <3> HIDE DEF both
    <3>2. CASE n = 3 /\ c.control < 12 /\ c.round > 1
      <4>1. /\ KeyChain(c, a)[n] = Xor(a[0], a[4]) /\ KeyChain(c, b)[n] = Xor(b[0], b[4])
            /\ KeyChain(c, both)[n] = Xor(both[0], both[4])
        BY <3>2 DEF KeyChain
      <4> QED BY <1>1, <3>1, <4>1, XorSwaps
    <3>3. CASE ~(n = 3 /\ c.control < 12 /\ c.round > 1)
      <4>1. \A k : KeyChain(c, k)[n] = k[(n + 1) % 16]
        BY <3>3 DEF KeyChain
      <4> QED BY <1>1, <3>1, <4>1
    <3> QED BY <3>2, <3>3
  <2> HIDE DEF both
  <2>2. Joined(KeyChain(c, a), KeyChain(c, b)) = KeyChain(c, both)
    BY <2>1 DEF Joined, KeyChain
  <2> QED BY <1>2, <2>2, KeyShareIs DEF both
<1>3. CASE InRound(c, 16, 19)
  <2>1. ASSUME NEW n \in Cell PROVE Xor(Turns(a)[n], Turns(b)[n]) = Turns(both)[n]
    <3>1. 12 + ((n + 1) % 4) \in Cell
      BY DEF Cell
    <3> HIDE DEF both
    <3> QED BY <1>1, <3>1 DEF Turns
  <2> HIDE DEF both
  <2>2. Joined(Turns(a), Turns(b)) = Turns(both)
    BY <2>1 DEF Joined, Turns
  <2> QED BY <1>3, <2>2, KeyShareIs DEF both
<1>4. CASE InRound(c, 20, 23)
  <2>1. ASSUME NEW n \in Cell PROVE Xor(Adds(a, x)[n], Adds(b, y)[n]) = Adds(both, Xor(x, y))[n]
    <3>1. 0 \in Cell /\ (n < 3 => n + 1 \in Cell)
      BY DEF Cell
    <3> HIDE DEF both
    <3>2. CASE n = 3
      <4>1. /\ Adds(a, x)[n] = Xor(x, a[0]) /\ Adds(b, y)[n] = Xor(y, b[0])
            /\ Adds(both, Xor(x, y))[n] = Xor(Xor(x, y), both[0])
        BY <3>2 DEF Adds
      <4> QED BY <1>1, <3>1, <4>1, XorSwaps
    <3>3. CASE n # 3
      BY <1>1, <3>1, <3>3 DEF Adds
    <3> QED BY <3>2, <3>3
  <2> HIDE DEF both
  <2>2. Joined(Adds(a, x), Adds(b, y)) = Adds(both, Xor(x, y))
    BY <2>1 DEF Joined, Adds
  <2> QED BY <1>4, <2>2, KeyShareIs DEF both
<1>5. CASE ~InRound(c, 0, 15) /\ ~InRound(c, 16, 19) /\ ~InRound(c, 20, 23)
  BY <1>5, KeyShareIs
<1> QED BY <1>2, <1>3, <1>4, <1>5

-----------------------------------------------------------------------------
(* What the sum of the shares goes through: the rounds of the standard.    *)

WholeState == Joined(mcore.state1, mcore.state2)
WholeKey == Joined(mcore.key1, mcore.key2)

\* A cycle of the rounds.
Moment(r, c) == r \in 1..11 /\ c \in 0..24 /\ (r = 11 => c < 16)
Stands(unit, r, c) == Moment(r, c) /\ unit.fsm = "Round" /\ unit.round = r /\ unit.control = c

\* While the S-box works, what comes out of it enters four cycles after its input left,
\* and the registers between hold what is of no use.
Delayed(state, text, out, c) ==
  \A n \in Cell : /\ n + c < 16 => state[n] = text[n + c]
                  /\ n + c >= 20 => state[n] = out[(n + c) - 20]
StateAt(r, c, state, texts, keys) ==
  LET out == Summed(r, texts[r - 1], keys[r - 1])
  IN IF r = 11 THEN state = Moved(texts[r - 1], out, c)
     ELSE IF c <= 20 THEN Delayed(state, texts[r - 1], out, c)
     ELSE state = Moved(RowsShifted(out), texts[r], 4 * (c - 21))

\* Sixteen cycles turn the key, which becomes the round's own in the first twelve; then
\* its last column turns, and the first column of the next key comes out.
Turning(key, m) == [n \in Cell |-> IF n < 12 THEN key[n] ELSE key[12 + ((n + m) % 4)]]
Replaced(key, next, m) ==
  [n \in Cell |-> IF n < 4 THEN (IF n + m < 4 THEN key[n + m] ELSE next[(n + m) - 4]) ELSE key[n]]
KeyAt(r, c, reg, keys) ==
  LET key == keys[r - 1]
  IN reg = IF c > 20 THEN Replaced(key, keys[r], c - 20)
           ELSE IF c > 16 THEN Turning(key, c - 16)
           ELSE IF r = 1 \/ c > 12 THEN Moved(key, key, c)
           ELSE Passing(keys[r - 2], key, c)

\* The inputs of the last four cycles are still in the stages.
StagesAt(c, stages, text, key) ==
  \A i \in 1..4 : LET j == (c + i) - 5
                  IN /\ j \in 0..15 => stages[i] = Xor(text[j], key[j])
                     /\ j \in 16..19 => stages[i] = key[12 + ((j - 15) % 4)]

LEMMA DelayedMoves ==
  ASSUME NEW state, NEW text, NEW out, NEW c \in 0..19, NEW x, Delayed(state, text, out, c),
         c >= 4 => x = out[c - 4]
  PROVE  Delayed(Shift(state, x), text, out, c + 1)
<1>1. ASSUME NEW n \in Cell
      PROVE  /\ n + (c + 1) < 16 => Shift(state, x)[n] = text[n + (c + 1)]
             /\ n + (c + 1) >= 20 => Shift(state, x)[n] = out[(n + (c + 1)) - 20]
  <2>1. CASE n < 15
    <3>1. n + 1 \in Cell /\ (n + 1) + c = n + (c + 1)
      BY <2>1 DEF Cell
    <3>2. /\ n + (c + 1) < 16 => state[n + 1] = text[n + (c + 1)]
          /\ n + (c + 1) >= 20 => state[n + 1] = out[(n + (c + 1)) - 20]
      BY <3>1 DEF Delayed
    <3> QED BY <2>1, <3>2 DEF Shift
  <2>2. CASE n = 15
    <3>1. ~(n + (c + 1) < 16) /\ (n + (c + 1) >= 20 => c >= 4 /\ (n + (c + 1)) - 20 = c - 4)
      BY <2>2
    <3> QED BY <2>2, <3>1 DEF Shift
  <2> QED BY <2>1, <2>2 DEF Cell
<1> QED BY <1>1 DEF Delayed

LEMMA DelayedEnds ==
  ASSUME NEW state, NEW text, NEW out, Delayed(state, text, out, 20)
  PROVE  ShiftRows(state) = RowsShifted(out)
<1>1. ASSUME NEW n \in Cell PROVE state[n] = out[n]
  <2>1. n + 20 >= 20 /\ (n + 20) - 20 = n
    BY DEF Cell
  <2> QED BY <2>1 DEF Delayed
<1>2. \A n \in Cell : (n + 4 * Row(n)) % 16 \in Cell
  BY CellArith
<1>3. ShiftRows(state) = ShiftRows(out)
  BY <1>1, <1>2 DEF ShiftRows
<1> QED BY <1>3, ShiftRowsIs

\* A cycle of the state in a round.
LEMMA StateMoves ==
  ASSUME NEW texts, NEW keys, Standard(texts, keys), NEW unit, NEW r, NEW c, Stands(unit, r, c),
         NEW state, NEW reg, NEW stages, StateAt(r, c, state, texts, keys),
         StagesAt(c, stages, texts[r - 1], keys[r - 1]), c < 16 => reg[0] = keys[r - 1][c]
  PROVE  LET next == StateShare(unit, state, reg, SBox[stages[1]])
         IN /\ r < 11 => IF c < 24 THEN StateAt(r, c + 1, next, texts, keys) ELSE next = texts[r]
            /\ r = 11 => next = Moved(texts[10], Summed(11, texts[10], keys[10]), c + 1)
<1>0. /\ unit.fsm = "Round" /\ r \in 1..11 /\ c \in 0..24 /\ (r = 11 => c < 16)
      /\ unit.round = r /\ unit.control = c
  BY DEF Stands, Moment
<1> USE <1>0
<1> DEFINE text == texts[r - 1]
           key == keys[r - 1]
           out == Summed(r, text, key)
           next == StateShare(unit, state, reg, SBox[stages[1]])
<1>1. /\ text \in Text /\ key \in Text /\ out \in Text
      /\ r <= 10 => texts[r] = Round(r, text, key)
  BY StandardRounds, SummedTyped
<1>2. FinalKeyAdd(unit) <=> r = 11
  BY DEF FinalKeyAdd
<1>3. /\ c \in 0..19 => next = Shift(state, IF r = 11 THEN Xor(state[0], reg[0]) ELSE SBox[stages[1]])
      /\ c = 20 => next = ShiftRows(state)
      /\ c \in 21..24 => next = MixColumn(state, r # 10)
  <2>1. /\ c \in 0..19 => InRound(unit, 0, 19)
        /\ c = 20 => InRound(unit, 20, 20)
        /\ c \in 21..24 => InRound(unit, 21, 24)
    BY DEF InRound
  <2>2. ~FinalRound(unit) <=> r # 10
    BY DEF FinalRound
  <2>3. MixColumn(state, ~FinalRound(unit)) = MixColumn(state, r # 10)
    BY <2>2 DEF MixColumn
  <2> DEFINE x == SBox[stages[1]]
  <2> HIDE DEF x
  <2>4. c \in 0..19 => StateShare(unit, state, reg, x) =
                         Shift(state, IF FinalKeyAdd(unit) THEN Xor(state[0], reg[0]) ELSE x)
    BY <2>1, StateShareIs
  <2>5. c = 20 => StateShare(unit, state, reg, x) = ShiftRows(state)
    BY <2>1, StateShareIs
  <2>6. c \in 21..24 => StateShare(unit, state, reg, x) = MixColumn(state, r # 10)
    BY <2>1, <2>3, StateShareIs
  <2>7. (IF FinalKeyAdd(unit) THEN Xor(state[0], reg[0]) ELSE x)
          = IF r = 11 THEN Xor(state[0], reg[0]) ELSE x
    BY <1>2
  <2> QED BY <2>4, <2>5, <2>6, <2>7 DEF x
<1>4. CASE r = 11
  <2>1. state = Moved(text, out, c) /\ c \in 0..15
    BY <1>4 DEF StateAt
  <2>2. 0 \in Cell /\ c \in Cell /\ 0 + c < 16 /\ 0 + c = c
    BY <2>1 DEF Cell
  <2>3. state[0] = text[c]
    BY <2>1, <2>2 DEF Moved
  <2>4. Xor(state[0], reg[0]) = out[c]
    BY <1>4, <2>1, <2>2, <2>3 DEF Summed
  <2>5. next = Shift(state, out[c])
    BY <1>3, <1>4, <2>1, <2>4
  <2> HIDE DEF text, key, out, next
  <2>6. next = Moved(text, out, c + 1)
    BY <2>1, <2>5, ShiftMoves
  <2> QED BY <1>4, <2>6 DEF text, key, out, next
<1>5. CASE r # 11 /\ c \in 0..19
  <2>1. Delayed(state, text, out, c)
    BY <1>5 DEF StateAt
  <2>2. ASSUME c >= 4 PROVE SBox[stages[1]] = out[c - 4]
    <3>1. 1 \in 1..4 /\ (c + 1) - 5 = c - 4 /\ c - 4 \in 0..15 /\ c - 4 \in Cell
      BY <1>5, <2>2 DEF Cell
    <3>2. stages[1] = Xor(text[c - 4], key[c - 4])
      BY <3>1 DEF StagesAt
    <3> QED BY <1>5, <3>1, <3>2 DEF Summed
  <2>3. next = Shift(state, SBox[stages[1]])
    BY <1>3, <1>5
  <2> HIDE DEF text, key, out, next
  <2>4. Delayed(next, text, out, c + 1)
    BY <1>5, <2>1, <2>2, <2>3, DelayedMoves
  <2>5. c + 1 <= 20 /\ c < 24 /\ r # 11
    BY <1>5
  <2> QED BY <2>4, <2>5 DEF StateAt, text, key, out, next
<1>6. CASE r # 11 /\ c = 20
  <2>1. Delayed(state, text, out, 20)
    BY <1>6 DEF StateAt
  <2>2. next = RowsShifted(out)
    BY <1>3, <1>6, <2>1, DelayedEnds
  <2>3. RowsShifted(out) \in Text
    <3>1. out = Substituted(AddKey(text, key))
      BY <1>1, <1>6, SummedTyped
    <3> HIDE DEF out, text, key
    <3> QED BY <1>1, <3>1, AddKeyTyped, ShiftedTyped
  <2> HIDE DEF out, text, key, next
  <2>4. next = Moved(RowsShifted(out), texts[r], 0)
    BY <2>2, <2>3, MovedEnds
  <2>5. ~(c + 1 <= 20) /\ c < 24 /\ 4 * ((c + 1) - 21) = 0
    BY <1>6
  <2> QED BY <1>6, <2>4, <2>5 DEF StateAt, out, text, key, next
<1>7. CASE r # 11 /\ c \in 21..24
  <2> DEFINE m == c - 21
  <2>1. m \in 0..3 /\ c = 21 + m /\ r \in 1..10 /\ ~(c <= 20)
    BY <1>7
  <2>2. state = Moved(RowsShifted(out), texts[r], 4 * m)
    BY <1>7, <2>1 DEF StateAt
  <2> HIDE DEF m
  <2>3. next = Moved(RowsShifted(out), texts[r], 4 * (m + 1))
    BY <1>3, <1>7, <2>1, <2>2, MixMoves
  <2>4. CASE c < 24
    <3>1. ~(c + 1 <= 20) /\ (c + 1) - 21 = m + 1
      BY <2>1, <2>4
    <3> QED BY <1>7, <2>3, <2>4, <3>1 DEF StateAt
  <2>5. CASE c = 24
    <3>1. 4 * (m + 1) = 16
      BY <2>1, <2>5
    <3>2. texts[r] \in Text
      BY <1>1, <2>1, RoundTyped
    <3> HIDE DEF out, text, key, next
    <3>3. next = texts[r]
      BY <2>3, <3>1, <3>2, <1>1, MovedEnds
    <3> QED BY <2>1, <2>5, <3>3 DEF next
  <2> QED BY <1>7, <2>4, <2>5
<1> QED BY <1>4, <1>5, <1>6, <1>7

LEMMA KeyEnds ==
  ASSUME NEW old, NEW key \in Text, NEW next
  PROVE  /\ Passing(old, key, 12) = Moved(key, key, 12)
         /\ Moved(key, key, 0) = key /\ Moved(key, key, 16) = key
         /\ Turning(key, 4) = key /\ Turning(key, 0) = key /\ Replaced(key, next, 0) = key
         /\ Replaced(key, next, 4) = Passing(key, next, 0)
<1>1. ASSUME NEW n \in Cell PROVE Passing(old, key, 12)[n] = Moved(key, key, 12)[n]
  <2>1. (n < 4 => n + 12 < 16) /\ (~(n < 4) => ~(n + 12 < 16))
    BY DEF Cell
  <2> QED BY <2>1 DEF Passing, Moved
<1>2. ASSUME NEW n \in Cell
      PROVE  Turning(key, 4)[n] = key[n] /\ Turning(key, 0)[n] = key[n] /\ Replaced(key, next, 0)[n] = key[n]
  <2>1. ~(n < 12) => 12 + ((n + 4) % 4) = n /\ 12 + ((n + 0) % 4) = n
    BY DEF Cell
  <2>2. n < 4 => n + 0 < 4 /\ n + 0 = n
    BY DEF Cell
  <2> QED BY <2>1, <2>2 DEF Turning, Replaced
<1>3. ASSUME NEW n \in Cell PROVE Replaced(key, next, 4)[n] = Passing(key, next, 0)[n]
  <2>1. n < 4 => ~(n + 4 < 4) /\ (n + 4) - 4 = n + 0
    BY DEF Cell
  <2>2. n + 0 < 16 /\ n + 0 = n
    BY DEF Cell
  <2> QED BY <2>1, <2>2 DEF Replaced, Passing, Moved
<1> QED BY <1>1, <1>2, <1>3, MovedEnds DEF Passing, Moved, Turning, Replaced, Text

LEMMA TurnMoves ==
  ASSUME NEW key, NEW m \in 0..3 PROVE Turns(Turning(key, m)) = Turning(key, m + 1)
<1>1. ASSUME NEW n \in Cell PROVE Turns(Turning(key, m))[n] = Turning(key, m + 1)[n]
  <2>1. Col(n) < 3 <=> n < 12
    BY DEF Cell, Col
  <2>2. 12 + ((n + 1) % 4) \in Cell /\ ~(12 + ((n + 1) % 4) < 12)
        /\ ((12 + ((n + 1) % 4)) + m) % 4 = (n + (m + 1)) % 4
    BY DEF Cell
  <2> QED BY <2>1, <2>2 DEF Turns, Turning
<1> QED BY <1>1 DEF Turns, Turning

LEMMA ReplacedMoves ==
  ASSUME NEW key, NEW next, NEW m \in 0..3, NEW out, Xor(out, key[m]) = next[m]
  PROVE  Adds(Replaced(key, next, m), out) = Replaced(key, next, m + 1)
<1>1. ASSUME NEW n \in Cell PROVE Adds(Replaced(key, next, m), out)[n] = Replaced(key, next, m + 1)[n]
  <2>1. CASE n < 3
    <3>1. n + 1 \in Cell /\ n + 1 < 4 /\ n < 4 /\ (n + 1) + m = n + (m + 1)
      BY <2>1 DEF Cell
    <3> QED BY <2>1, <3>1 DEF Adds, Replaced
  <2>2. CASE n = 3
    <3>1. 0 \in Cell /\ 0 < 4 /\ 0 + m < 4 /\ 0 + m = m
      BY DEF Cell
    <3>2. ~(n + (m + 1) < 4) /\ (n + (m + 1)) - 4 = m /\ n < 4
      BY <2>2
    <3>3. Replaced(key, next, m)[0] = key[m]
      BY <3>1 DEF Replaced
    <3>4. Replaced(key, next, m + 1)[n] = next[m]
      BY <3>2 DEF Replaced
    <3>5. Adds(Replaced(key, next, m), out)[n] = Xor(out, key[m])
      BY <2>2, <3>3 DEF Adds
    <3> QED BY <3>4, <3>5
  <2>3. CASE n > 3
    <3>1. ~(n < 3) /\ n # 3 /\ ~(n < 4)
      BY <2>3 DEF Cell
    <3> QED BY <3>1 DEF Adds, Replaced
  <2> QED BY <2>1, <2>2, <2>3 DEF Cell
<1> QED BY <1>1 DEF Adds, Replaced

\* A cycle of the key in a round.
LEMMA KeyMoves ==
  ASSUME NEW texts, NEW keys, Standard(texts, keys), NEW unit, NEW r, NEW c, Stands(unit, r, c),
         NEW reg, NEW stages, KeyAt(r, c, reg, keys), StagesAt(c, stages, texts[r - 1], keys[r - 1]),
         NEW rc, r < 11 => rc = IF c = 20 THEN Rcon[r] ELSE {}
  PROVE  LET next == KeyShare(unit, reg, Xor(SBox[stages[1]], rc))
         IN /\ c < 24 => KeyAt(r, c + 1, next, keys)
            /\ c = 24 => next = Passing(keys[r - 1], keys[r], 0)
<1>0. /\ unit.fsm = "Round" /\ r \in 1..11 /\ c \in 0..24 /\ (r = 11 => c < 16)
      /\ unit.round = r /\ unit.control = c
  BY DEF Stands, Moment
<1> USE <1>0
<1> DEFINE key == keys[r - 1]
           out == Xor(SBox[stages[1]], rc)
           next == KeyShare(unit, reg, out)
<1>1. key \in Text
  BY StandardRounds
<1>2. /\ c \in 0..15 => next = KeyChain(unit, reg)
      /\ c \in 16..19 => next = Turns(reg)
      /\ c \in 20..23 => next = Adds(reg, out)
      /\ c = 24 => next = reg
  <2>1. /\ InRound(unit, 0, 15) <=> c \in 0..15
        /\ InRound(unit, 16, 19) <=> c \in 16..19
        /\ InRound(unit, 20, 23) <=> c \in 20..23
    BY DEF InRound
  <2> HIDE DEF out
  <2> QED BY <2>1, KeyShareIs
<1>3. CASE c \in 0..15 /\ (r = 1 \/ c >= 12)
  <2>1. next = [n \in Cell |-> reg[(n + 1) % 16]]
    BY <1>2, <1>3 DEF KeyChain
  <2>2. reg = Moved(key, key, c)
    <3>1. CASE r = 1 \/ c > 12
      BY <1>3, <3>1 DEF KeyAt
    <3>2. CASE r # 1 /\ c = 12
      <4>1. reg = Passing(keys[r - 2], key, 12)
        BY <3>2 DEF KeyAt
      <4> HIDE DEF key
      <4> QED BY <1>1, <3>2, <4>1, KeyEnds
    <3> QED BY <1>3, <3>1, <3>2
  <2> HIDE DEF key, next
  <2>3. next = Moved(key, key, c + 1)
    BY <1>3, <2>1, <2>2, MovesOn
  <2>4. ~(c + 1 > 20) /\ ~(c + 1 > 16) /\ (r = 1 \/ c + 1 > 12) /\ c # 24
    BY <1>3
  <2> QED BY <2>3, <2>4 DEF KeyAt, key, next, out
<1>4. CASE c \in 0..11 /\ r # 1
  <2>1. next = [n \in Cell |-> IF n = 3 THEN Xor(reg[0], reg[4]) ELSE reg[(n + 1) % 16]]
    BY <1>2, <1>4 DEF KeyChain
  <2> DEFINE old == keys[r - 2]
  <2>2. reg = Passing(old, key, c)
    BY <1>4 DEF KeyAt
  <2>3. \A n \in 0..11 : key[n + 4] = Xor(key[n], old[n + 4])
    <3>1. r - 1 \in 1..11 /\ r - 1 <= 10 /\ (r - 1) - 1 = r - 2 /\ r - 1 \in 1..10
      BY <1>4
    <3>2. key = NextKey(r - 1, old) /\ old \in Text
      BY <3>1, StandardRounds
    <3> HIDE DEF key, old
    <3> QED BY <3>1, <3>2, NextKeyIs
  <2> HIDE DEF key, old, next
  <2>4. next = Passing(old, key, c + 1)
    <3>1. \A n \in Cell : (IF n = 3 THEN Xor(reg[0], reg[4]) ELSE reg[(n + 1) % 16])
                             = Passing(old, key, c + 1)[n]
      BY <1>4, <2>2, <2>3, PassesOn
    <3> QED BY <2>1, <3>1 DEF Passing
  <2>5. ~(c + 1 > 20) /\ ~(c + 1 > 16) /\ ~(r = 1 \/ c + 1 > 12) /\ c # 24
    BY <1>4
  <2> QED BY <2>4, <2>5 DEF KeyAt, key, old, next, out
<1>5. CASE c \in 16..19
  <2> DEFINE m == c - 16
  <2>1. m \in 0..3 /\ (c + 1) - 16 = m + 1
    BY <1>5
  <2>2. reg = Turning(key, m)
    <3>1. CASE c = 16
      <4>1. reg = Moved(key, key, 16) /\ m = 0
        BY <3>1 DEF KeyAt
      <4> HIDE DEF key, m
      <4> QED BY <1>1, <4>1, KeyEnds
    <3>2. CASE c > 16
      BY <1>5, <3>2 DEF KeyAt
    <3> QED BY <1>5, <3>1, <3>2
  <2> HIDE DEF key, m, next
  <2>3. next = Turning(key, m + 1)
    BY <1>2, <1>5, <2>1, <2>2, TurnMoves
  <2>4. ~(c + 1 > 20) /\ c + 1 > 16 /\ c # 24
    BY <1>5
  <2> QED BY <2>1, <2>3, <2>4 DEF KeyAt, key, next, out
<1>6. CASE c \in 20..23
  <2> DEFINE m == c - 20
             new == keys[r]
  <2>1. m \in 0..3 /\ (c + 1) - 20 = m + 1 /\ c - 4 = 16 + m /\ r \in 1..10 /\ r <= 10 /\ r < 11
        /\ (c = 20 <=> m = 0)
    BY <1>6
  <2>2. reg = Replaced(key, new, m)
    <3>1. CASE c = 20
      <4>1. reg = Turning(key, 4) /\ m = 0
        BY <3>1 DEF KeyAt
      <4> HIDE DEF key, m, new
      <4> QED BY <1>1, <4>1, KeyEnds
    <3>2. CASE c > 20
      BY <1>6, <3>2 DEF KeyAt
    <3> QED BY <1>6, <3>1, <3>2
  <2>3. stages[1] = key[12 + ((m + 1) % 4)]
    <3>1. 1 \in 1..4 /\ (c + 1) - 5 = 16 + m /\ 16 + m \in 16..19 /\ (16 + m) - 15 = m + 1
      BY <1>6
    <3> HIDE DEF m
    <3> QED BY <3>1 DEF StagesAt
  <2>4. new[m] = XorAll(key[m], SBox[key[12 + ((m + 1) % 4)]], IF m = 0 THEN Rcon[r] ELSE {})
    <3>1. new = NextKey(r, key)
      BY <2>1, StandardRounds
    <3> HIDE DEF key, new, m
    <3> QED BY <1>1, <2>1, <3>1, NextKeyIs
  <2>5. rc = IF m = 0 THEN Rcon[r] ELSE {}
    BY <2>1
  <2> HIDE DEF key, new, m
  <2>6. Xor(out, key[m]) = new[m]
    BY <2>3, <2>4, <2>5, XorGroup DEF XorAll
  <2> HIDE DEF out, next
  <2>7. next = Replaced(key, new, m + 1)
    BY <1>2, <1>6, <2>1, <2>2, <2>6, ReplacedMoves
  <2>8. c + 1 > 20 /\ c # 24
    BY <1>6
  <2> QED BY <2>1, <2>7, <2>8 DEF KeyAt, key, new, next, out
<1>7. CASE c = 24
  <2>1. reg = Replaced(key, keys[r], 4)
    BY <1>7 DEF KeyAt
  <2> HIDE DEF key, next
  <2>2. next = Passing(key, keys[r], 0)
    BY <1>1, <1>2, <1>7, <2>1, KeyEnds
  <2> QED BY <1>7, <2>2 DEF key, next, out
<1> QED BY <1>3, <1>4, <1>5, <1>6, <1>7

\* The byte that goes to the S-box while the last column of the key turns.
LastByte(c) == 12 + ((c - 15) % 4)

\* What goes into the S-box.
LEMMA Inputs ==
  ASSUME NEW texts, NEW keys, Standard(texts, keys), NEW r, NEW c, Moment(r, c),
         NEW state, NEW reg, StateAt(r, c, state, texts, keys),
         KeyAt(r, c, reg, keys)
  PROVE  /\ c < 16 => state[0] = texts[r - 1][c] /\ reg[0] = keys[r - 1][c]
         /\ c \in 16..19 => reg[13] = keys[r - 1][LastByte(c)]
<1>0. r \in 1..11 /\ c \in 0..24 /\ (r = 11 => c < 16)
  BY DEF Moment
<1> USE <1>0
<1> DEFINE text == texts[r - 1]
           key == keys[r - 1]
<1>1. key \in Text
  BY StandardRounds
<1>2. CASE c < 16
  <2>1. 0 \in Cell /\ 0 + c < 16 /\ 0 + c = c /\ 0 < 4 /\ c <= 20 /\ ~(c > 20) /\ ~(c > 16)
    BY <1>2 DEF Cell
  <2>2. state[0] = text[c]
    BY <2>1 DEF StateAt, Delayed, Moved
  <2>3. reg[0] = key[c]
    BY <2>1 DEF KeyAt, Passing, Moved
  <2> QED BY <1>2, <2>2, <2>3
<1>3. CASE c \in 16..19
  <2>1. reg = Turning(key, c - 16)
    <3>1. CASE c = 16
      <4>1. reg = Moved(key, key, 16) /\ c - 16 = 0
        BY <3>1 DEF KeyAt
      <4> HIDE DEF key
      <4> QED BY <1>1, <4>1, KeyEnds
    <3>2. CASE c > 16
      BY <1>3, <3>2 DEF KeyAt
    <3> QED BY <1>3, <3>1, <3>2
  <2>2. 13 \in Cell /\ ~(13 < 12) /\ (13 + (c - 16)) % 4 = (c - 15) % 4
    BY <1>3 DEF Cell
  <2> HIDE DEF key
  <2>3. reg[13] = key[12 + ((c - 15) % 4)]
    BY <2>1, <2>2 DEF Turning
  <2> QED BY <1>3, <2>3 DEF key, LastByte
<1> QED BY <1>2, <1>3

LEMMA StagesMove ==
  ASSUME NEW c \in 0..23, NEW stages, NEW next, NEW text, NEW key, StagesAt(c, stages, text, key),
         \A i \in 1..3 : next[i] = stages[i + 1],
         c < 16 => next[4] = Xor(text[c], key[c]),
         c \in 16..19 => next[4] = key[12 + ((c - 15) % 4)]
  PROVE  StagesAt(c + 1, next, text, key)
<1>1. ASSUME NEW i \in 1..4
      PROVE  LET j == ((c + 1) + i) - 5
             IN /\ j \in 0..15 => next[i] = Xor(text[j], key[j])
                /\ j \in 16..19 => next[i] = key[12 + ((j - 15) % 4)]
  <2>1. CASE i \in 1..3
    <3>1. i + 1 \in 1..4 /\ (c + (i + 1)) - 5 = ((c + 1) + i) - 5
      BY <2>1
    <3> QED BY <2>1, <3>1 DEF StagesAt
  <2>2. CASE i = 4
    <3>1. ((c + 1) + i) - 5 = c
      BY <2>2
    <3> QED BY <2>2, <3>1
  <2> QED BY <2>1, <2>2
<1> QED BY <1>1 DEF StagesAt

-----------------------------------------------------------------------------
(* What a cycle does to the shares.                                        *)

Kept == /\ mcore'.state1 = mcore.state1 /\ mcore'.state2 = mcore.state2
        /\ mcore'.key1 = mcore.key1 /\ mcore'.key2 = mcore.key2
Counts(fst, snd) ==
  /\ mcore'.control1 = (mcore.control1 + (IF fst THEN 1 ELSE 0)) % 4
  /\ mcore'.control2 = (mcore.control2 + (IF snd THEN 1 ELSE 0)) % 4
RoundConstant == IF mcore.control = 20 THEN mcore.rcon ELSE {}
ShareCycle(split) ==
  /\ mcore'.stages = Append(Tail(mcore.stages), SBoxIn(mcore))
  /\ mcore.fsm = "Idle" =>
       /\ mcore'.state1 = Zero /\ mcore'.state2 = Zero /\ mcore'.key1 = Zero /\ mcore'.key2 = Zero
       /\ mcore'.rcon = {0} /\ mcore'.control1 = 0 /\ mcore'.control2 = 0
  /\ mcore.fsm = "Init" =>
       /\ mcore'.rcon = mcore.rcon /\ Counts(mcore.control < 4, ~(mcore.control < 4))
       /\ IF mcore.control < 4
          THEN /\ mcore'.state1 = Column(mcore.state1, mcore.control1, mplainFifo[1])
               /\ mcore'.key1 = Column(mcore.key1, mcore.control1, mkeyFifo[1])
               /\ mcore'.state2 = mcore.state2 /\ mcore'.key2 = mcore.key2
          ELSE /\ mcore'.state2 = Column(mcore.state2, mcore.control2, mplainFifo[1])
               /\ mcore'.key2 = Column(mcore.key2, mcore.control2, mkeyFifo[1])
               /\ mcore'.state1 = mcore.state1 /\ mcore'.key1 = mcore.key1
  /\ mcore.fsm = "Round" =>
       /\ mcore'.rcon = (IF mcore.control = 24 THEN Xtime(mcore.rcon) ELSE mcore.rcon)
       /\ Counts(FALSE, FALSE)
       /\ LET out == SBox[mcore.stages[1]]
          IN /\ mcore'.state1 = StateShare(mcore, mcore.state1, mcore.key1, Xor(out, split))
             /\ mcore'.state2 = StateShare(mcore, mcore.state2, mcore.key2, split)
             /\ mcore'.key1 = KeyShare(mcore, mcore.key1, Xor(Xor(out, split), RoundConstant))
             /\ mcore'.key2 = KeyShare(mcore, mcore.key2, split)
  /\ mcore.fsm = "Done" =>
       /\ mcore'.rcon = mcore.rcon /\ Kept
       /\ Counts(ReadsMaskedCipher /\ mcore.control < 4, ReadsMaskedCipher /\ ~(mcore.control < 4))

\* In the loading state a word of each queue is taken in every cycle.
LEMMA LoadsInInit ==
  ASSUME CoreInv
  PROVE  /\ mcore.fsm # "Init" => ~Loads(1) /\ ~Loads(2)
         /\ mcore.fsm = "Init" =>
              /\ mat = 20 /\ mcore.control \in 0..7 /\ mcore.round = 1
              /\ Len(mkeyFifo) = 8 - mcore.control /\ Len(mplainFifo) = 8 - mcore.control
              /\ Taken(mkeyFifo) /\ Taken(mplainFifo)
              /\ mkeyFifo # << >> /\ mplainFifo # << >>
              /\ Loads(1) <=> mcore.control < 4 
              /\ Loads(2) <=> ~(mcore.control < 4)
<1>1. mcore.fsm # "Init" => ~Loads(1) /\ ~Loads(2)
  BY DEF Loads, Asks
<1>2. ASSUME mcore.fsm = "Init"
      PROVE  /\ mat = 20 /\ mcore.control \in 0..7 /\ mcore.round = 1
             /\ Len(mkeyFifo) = 8 - mcore.control /\ Len(mplainFifo) = 8 - mcore.control
  <2>1. mat = 20
    BY <1>2 DEF CoreInv, DriverOK, Filling, Fetching
  <2> QED BY <1>2, <2>1 DEF CoreInv, Running, Queued
<1>3. ASSUME mcore.fsm = "Init"
      PROVE  Taken(mkeyFifo) /\ Taken(mplainFifo)
  BY <1>2, <1>3, Takes DEF CoreInv, DriverOK
<1>4. ASSUME mcore.fsm = "Init"
      PROVE  mkeyFifo # << >> /\ mplainFifo # << >>
  BY <1>3, <1>4 DEF Taken
<1>5. ASSUME mcore.fsm = "Init"
      PROVE  (Loads(1) <=> mcore.control < 4) /\ (Loads(2) <=> ~(mcore.control < 4))
  BY <1>2, <1>3, <1>5 DEF Loads, Asks
<1> QED BY <1>1, <1>2, <1>3, <1>4, <1>5

LEMMA ShareStep ==
  ASSUME CoreInv, MaskedPeripheralNext
  PROVE  \E word : ShareCycle(Split(word))
<1> DEFINE fires == ReadsMaskedCipher /\ Done(mcore)
           key == Front(mkeyFifo)
           plain == Front(mplainFifo)
           word == IF maskFifo = << >> THEN 0 ELSE Head(maskFifo)
           split == Split(word)
           out == Xor(SBox[mcore.stages[1]], split)
           idle == mcore.fsm = "Idle"
<1>1. mcore' = MaskedCoreNext(mcore, MaskedCoreEnable, key, plain, fires, word)
  BY DEF MaskedPeripheralNext
<1>2. mcore.fsm # "Init" => ~Loads(1) /\ ~Loads(2)
  BY LoadsInInit
<1>3. mcore.fsm = "Init" =>
        /\ mcore.control \in 0..7 /\ mkeyFifo # << >> /\ mplainFifo # << >>
        /\ Loads(1) <=> mcore.control < 4
        /\ Loads(2) <=> ~(mcore.control < 4)
  BY LoadsInInit
<1>4. SBoxOut0(mcore, word) = out /\ SBoxOut1(mcore, word) = split
  BY DEF SBoxOut0, SBoxOut1
<1> HIDE DEF fires, key, plain, word, split, out
<1>5. /\ mcore'.control1 = ShareControl(mcore, mcore.control1, Loads(1) \/ (fires /\ mcore.control < 4))
      /\ mcore'.control2 = ShareControl(mcore, mcore.control2, Loads(2) \/ (fires /\ mcore.control >= 4))
      /\ mcore'.rcon = IF idle THEN {0} ELSE IF MaskedOverflows(mcore) THEN Xtime(mcore.rcon) ELSE mcore.rcon
      /\ mcore'.stages = Append(Tail(mcore.stages), SBoxIn(mcore))
  BY <1>1 DEF MaskedCoreNext
<1>6. /\ mcore'.state1 = (IF idle THEN Zero ELSE IF Loads(1) THEN Column(mcore.state1, mcore.control1, plain)
                          ELSE StateShare(mcore, mcore.state1, mcore.key1, out))
      /\ mcore'.state2 = (IF idle THEN Zero ELSE IF Loads(2) THEN Column(mcore.state2, mcore.control2, plain)
                          ELSE StateShare(mcore, mcore.state2, mcore.key2, split))
  BY <1>1, <1>4 DEF MaskedCoreNext
<1>7. /\ mcore'.key1 = (IF idle THEN Zero ELSE IF Loads(1) THEN Column(mcore.key1, mcore.control1, key)
                        ELSE KeyShare(mcore, mcore.key1, Xor(out, RoundConstant)))
      /\ mcore'.key2 = (IF idle THEN Zero ELSE IF Loads(2) THEN Column(mcore.key2, mcore.control2, key)
                        ELSE KeyShare(mcore, mcore.key2, split))
  BY <1>1, <1>4 DEF MaskedCoreNext, RoundConstant
<1>8. mcore.fsm # "Round" => /\ ~MaskedOverflows(mcore)
                            /\ \A t, u, v : StateShare(mcore, t, u, v) = t
                            /\ \A k, x : KeyShare(mcore, k, x) = k
  BY StateShareIs, KeyShareIs DEF InRound, MaskedOverflows
<1>9. CASE mcore.fsm = "Idle"
  BY <1>5, <1>6, <1>7, <1>9 DEF ShareCycle, ShareControl, idle
<1>10. CASE mcore.fsm = "Init"
  <2>1. ~fires /\ ~idle
    BY <1>10 DEF fires, Done
  <2>2. key = mkeyFifo[1] /\ plain = mplainFifo[1]
    BY <1>3, <1>10 DEF key, plain, Front
  <2>3. Counts(mcore.control < 4, ~(mcore.control < 4)) /\ mcore'.rcon = mcore.rcon
    BY <1>3, <1>5, <1>8, <1>10, <2>1 DEF Counts, ShareControl
  <2> HIDE DEF idle
  <2> QED BY <1>3, <1>5, <1>6, <1>7, <1>8, <1>10, <2>1, <2>2, <2>3 DEF ShareCycle
<1>11. CASE mcore.fsm = "Round"
  <2>1. ~fires /\ ~idle /\ (MaskedOverflows(mcore) <=> mcore.control = 24)
    BY <1>11 DEF fires, Done, MaskedOverflows, InRound, CoreInv, DriverOK
  <2>2. Counts(FALSE, FALSE)
    BY <1>2, <1>5, <1>11, <2>1 DEF Counts, ShareControl
  <2> HIDE DEF idle
  <2>3. /\ mcore'.state1 = StateShare(mcore, mcore.state1, mcore.key1, out)
        /\ mcore'.state2 = StateShare(mcore, mcore.state2, mcore.key2, split)
        /\ mcore'.key1 = KeyShare(mcore, mcore.key1, Xor(out, RoundConstant))
        /\ mcore'.key2 = KeyShare(mcore, mcore.key2, split)
    BY <1>2, <1>6, <1>7, <1>11, <2>1
  <2> QED BY <1>5, <1>11, <2>1, <2>2, <2>3 DEF ShareCycle, out, split
<1>12. CASE mcore.fsm = "Done"
  <2>1. (fires <=> ReadsMaskedCipher) /\ ~idle
    BY <1>12 DEF fires, Done
  <2>2. mcore.control >= 4 <=> ~(mcore.control < 4)
    BY DEF CoreInv, DriverOK
  <2>3. Counts(ReadsMaskedCipher /\ mcore.control < 4, ReadsMaskedCipher /\ ~(mcore.control < 4))
    BY <1>2, <1>5, <1>12, <2>1, <2>2 DEF Counts, ShareControl
  <2> HIDE DEF idle
  <2>4. mcore'.rcon = mcore.rcon /\ Kept
    BY <1>2, <1>5, <1>6, <1>7, <1>8, <1>12, <2>1 DEF Kept
  <2> QED BY <1>5, <1>12, <2>3, <2>4 DEF ShareCycle
<1>13. mcore.fsm \in {"Idle", "Init", "Round", "Done"}
  BY DEF CoreInv, DriverOK
<1> QED BY <1>9, <1>10, <1>11, <1>12, <1>13

\* What an access does to the driver.
LEMMA Driven ==
  ASSUME CoreInv, MaskedNext
  PROVE  \/ /\ ~MaskedAccess /\ UNCHANGED << mat, mblock, share, mfetched >>
            /\ mbus' # "idle" => mbus # "idle" \/ mblock <= Len(MaskedBlocks)
         \/ /\ MaskedTransfer /\ MaskedAccess /\ mbus # "idle" /\ mat' \in 1..28
            /\ mblock' = (IF mat = 28 THEN mblock + 1 ELSE mblock)
            /\ share' = (IF mat = 8 THEN Remasked ELSE share)
            /\ mfetched' = (IF mat \in 21..28 THEN Append(mfetched, MaskedCipher(mcore)) ELSE mfetched)
            /\ mat \in 1..16 \cup 18..19 \cup 21..27 => mat' = mat + 1
            /\ mat = 17 => mat' \in {17, 18}
            /\ mat = 20 => mat' = IF mdone THEN 21 ELSE 20
            /\ mat = 28 => mat' = 1
            /\ mbus' # "idle" => mblock' <= Len(MaskedBlocks)
<1>1. CASE MaskedWait
  BY <1>1 DEF MaskedWait, maskedDriver, MaskedAccess
<1>2. CASE MaskedStart
  BY <1>2 DEF MaskedStart, MaskedAccess
<1>3. CASE MaskedSetup
  BY <1>3 DEF MaskedSetup, MaskedAccess
<1>4. CASE MaskedTransfer
  <2>1. /\ MaskedAccess /\ mbus # "idle"
        /\ mbus' # "idle" => mblock' <= Len(MaskedBlocks)
    BY <1>4 DEF MaskedTransfer, MaskedAccess
  <2>2. /\ mblock' = (IF mat = 28 THEN mblock + 1 ELSE mblock)
        /\ share' = (IF mat = 8 THEN Remasked ELSE share)
        /\ mfetched' = (IF mat \in 21..28 THEN Append(mfetched, MaskedCipher(mcore)) ELSE mfetched)
    BY <1>4, <2>1 DEF MaskedTransfer, MaskedComplete, ReadsMaskedCipher
  <2>3. mat \in 1..28 /\ mat' \in 1..28
    BY CoreInvStep DEF CoreInv, DriverOK
  <2> QED BY <1>4, <2>1, <2>2, <2>3, Advances
<1> QED BY <1>1, <1>2, <1>3, <1>4 DEF MaskedNext

\* While the core works nothing that it works on changes.
LEMMA Working ==
  ASSUME CoreInv, MaskedNext, mcore.fsm \in {"Init", "Round"}
  PROVE  mat = 20 /\ mat' = 20 /\ UNCHANGED << mblock, share, mfetched >>
<1>1. mat = 20 /\ ~mdone
  <2>1. mat = 20
    BY DEF CoreInv, DriverOK, Filling, Fetching
  <2> QED BY <2>1 DEF CoreInv, Running
<1> QED BY <1>1, Driven

MaskedKeys(b) == RoundKeys(MaskedBlocks[b].key)
MaskedTexts(b) == Texts(MaskedBlocks[b].plain, MaskedKeys(b))

InRounds ==
  mcore.fsm = "Round" =>
    LET r == mcore.round  c == mcore.control  texts == MaskedTexts(mblock)  keys == MaskedKeys(mblock)
    IN /\ StateAt(r, c, WholeState, texts, keys)
       /\ KeyAt(r, c, WholeKey, keys)
       /\ StagesAt(c, mcore.stages, texts[r - 1], keys[r - 1])
       /\ r < 11 => mcore.rcon = Rcon[r]

\* The share that the loop of main.c:140-148 writes first, and the words in the queues.
First ==
  IF mat <= 8 THEN share
  ELSE [key |-> Added(share.key, MaskedBlocks[mblock].key),
        plain |-> Added(share.plain, MaskedBlocks[mblock].plain)]
ShareWordAt(first, second, k) == IF k <= 4 THEN Word(first, k) ELSE Word(second, k - 4)
LoadedWords == IF mcore.fsm = "Init" THEN mcore.control ELSE 0
Queues ==
  mat \in 1..20 =>
    /\ \A i \in 1..Len(mkeyFifo) :
         mkeyFifo[i] = ShareWordAt(First.key, share.key, LoadedWords + i)
    /\ \A i \in 1..Len(mplainFifo) :
         mplainFifo[i] = ShareWordAt(First.plain, share.plain, LoadedWords + i)

\* The columns that have been loaded.
Holds(regs1, regs2, first, second, k) ==
  \A n \in Cell : /\ Col(n) < k => regs1[n] = first[n + 1]
                  /\ Col(n) + 4 < k => regs2[n] = second[n + 1]
Loaded(k) == /\ Holds(mcore.state1, mcore.state2, First.plain, share.plain, k)
             /\ Holds(mcore.key1, mcore.key2, First.key, share.key, k)
InLoading ==
  /\ mcore.fsm = "Init" => Loaded(mcore.control)
  /\ mcore.fsm = "Round" /\ mcore.round = 1 /\ mcore.control = 0 => Loaded(8)

MaskedTyped ==
  /\ mcore.state1 \in Text /\ mcore.state2 \in Text /\ mcore.key1 \in Text /\ mcore.key2 \in Text
  /\ mcore.stages \in Seq(Byte) /\ Len(mcore.stages) = 4 /\ mcore.rcon \in Byte
  /\ share.key \in [1..16 -> Byte] /\ share.plain \in [1..16 -> Byte]
  /\ mblock \in Nat \ {0} /\ (mbus # "idle" \/ mat # 1 => mblock <= Len(MaskedBlocks))
  /\ mcore.fsm \in {"Init", "Done"} =>
       /\ mcore.control1 = (IF mcore.control < 4 THEN mcore.control ELSE 0)
       /\ mcore.control2 = (IF mcore.control \in 4..7 THEN mcore.control - 4 ELSE 0)
  /\ mcore.fsm = "Round" => mcore.control1 = 0 /\ mcore.control2 = 0
  /\ mcore.fsm = "Init" => mcore.rcon = {0}

\* The ciphertext, and the words of it that have been fetched.
Share1Word(k) == [i \in 1..4 |-> mcore.state1[(4 * k + i) - 1]]
Answered ==
  /\ mcore.fsm = "Done" /\ mat # 1 => WholeState = Cells(MaskedBlocks[mblock].cipher)
  /\ IsSequence(mfetched)
  /\ Len(mfetched) = 8 * (mblock - 1) + (IF mat \in 21..28 THEN mat - 21 ELSE 0)
  /\ mat \in 21..28 => \A k \in 0..3 : k < mat - 21 =>
       mfetched[8 * (mblock - 1) + 1 + k] = Share1Word(k)
  /\ AnswersRecombine

AnswerInv == MaskInv /\ MaskedTyped /\ InRounds /\ Queues /\ InLoading /\ Answered

-----------------------------------------------------------------------------
(* Types.                                                                  *)

LEMMA StateShareTyped ==
  ASSUME NEW c, NEW a \in Text, NEW k \in Text, NEW x \in Byte PROVE StateShare(c, a, k, x) \in Text
<1>1. \A n \in Cell : a[n] \in Byte /\ k[n] \in Byte
  BY DEF Text
<1>2. ASSUME NEW y \in Byte PROVE Shift(a, y) \in Text
  <2>1. \A n \in Cell : n < 15 => n + 1 \in Cell
    BY DEF Cell
  <2> QED BY <1>1, <2>1 DEF Shift, Text
<1>3. ShiftRows(a) \in Text
  <2>1. \A n \in Cell : (n + 4 * Row(n)) % 16 \in Cell
    BY CellArith
  <2> QED BY <1>1, <2>1 DEF ShiftRows, Text
<1>4. ASSUME NEW mix \in BOOLEAN PROVE MixColumn(a, mix) \in Text
  <2>1. ASSUME NEW n \in Cell PROVE MixColumn(a, mix)[n] \in Byte
    <3>1. Row(n) \in 0..3 /\ Row(n) \in Cell /\ (Col(n) < 3 => n + 4 \in Cell)
      BY CellArith DEF Cell
    <3> DEFINE r == Row(n)
    <3>2. ASSUME NEW i \in 0..3 PROVE a[(r + i) % 4] \in Byte
      <4>1. (r + i) % 4 \in Cell
        BY <3>1 DEF Cell
      <4> QED BY <1>1, <4>1
    <3>3. MixedByte(a, r) = Mixed(a[(r + 0) % 4], a[(r + 1) % 4], a[(r + 2) % 4], a[(r + 3) % 4])
      BY DEF MixedByte, Mixed
    <3> HIDE DEF r
    <3>4. MixedByte(a, r) \in Byte
      BY <3>2, <3>3, MixedTyped
    <3> QED BY <1>1, <3>1, <3>4 DEF MixColumn, r
  <2> QED BY <2>1 DEF MixColumn, Text
<1>5. 0 \in Cell
  BY DEF Cell
<1>6. Xor(a[0], k[0]) \in Byte
  BY <1>1, <1>5, XorTyped
<1>7. (~FinalRound(c)) \in BOOLEAN
  BY Zenon DEF FinalRound
<1>8. CASE InRound(c, 0, 19)
  BY <1>2, <1>6, <1>8, StateShareIs
<1>9. CASE InRound(c, 20, 20)
  BY <1>3, <1>9, StateShareIs
<1>10. CASE InRound(c, 21, 24)
  <2> DEFINE mix == ~FinalRound(c)
  <2>1. mix \in BOOLEAN /\ StateShare(c, a, k, x) = MixColumn(a, mix)
    BY <1>7, <1>10, StateShareIs
  <2> HIDE DEF mix
  <2> QED BY <1>4, <2>1
<1>11. CASE ~InRound(c, 0, 19) /\ ~InRound(c, 20, 20) /\ ~InRound(c, 21, 24)
  BY <1>11, StateShareIs
<1> QED BY <1>8, <1>9, <1>10, <1>11

LEMMA KeyShareTyped ==
  ASSUME NEW c, NEW k \in Text, NEW x \in Byte PROVE KeyShare(c, k, x) \in Text
<1>1. \A n \in Cell : k[n] \in Byte
  BY DEF Text
<1>2. 0 \in Cell /\ 4 \in Cell /\ \A n \in Cell : (n + 1) % 16 \in Cell
  BY CellArith DEF Cell
<1>3. KeyChain(c, k) \in Text
  <2>1. Xor(k[0], k[4]) \in Byte
    BY <1>1, <1>2, XorTyped
  <2> QED BY <1>1, <1>2, <2>1 DEF KeyChain, Text
<1>4. Turns(k) \in Text
  <2>1. \A n \in Cell : 12 + ((n + 1) % 4) \in Cell
    BY DEF Cell
  <2> QED BY <1>1, <2>1 DEF Turns, Text
<1>5. Adds(k, x) \in Text
  <2>1. \A n \in Cell : n < 3 => n + 1 \in Cell
    BY DEF Cell
  <2>2. Xor(x, k[0]) \in Byte
    BY <1>1, <1>2, XorTyped
  <2> QED BY <1>1, <2>1, <2>2 DEF Adds, Text
<1> QED BY <1>3, <1>4, <1>5, KeyShareIs

LEMMA ColumnTyped ==
  ASSUME NEW reg \in Text, NEW word \in [1..4 -> Byte], NEW c PROVE Column(reg, c, word) \in Text
<1>1. \A n \in Cell : Row(n) + 1 \in 1..4
  BY CellArith
<1> QED BY <1>1 DEF Column, Text

LEMMA SplitTyped == \A word : Split(word) \in Byte
BY DEF Split, Byte

LEMMA StageStep ==
  ASSUME NEW S, NEW s \in Seq(S), Len(s) = 4, NEW x \in S
  PROVE  LET t == Append(Tail(s), x)
         IN t \in Seq(S) /\ Len(t) = 4 /\ t[4] = x /\ \A i \in 1..3 : t[i] = s[i + 1]
<1> DEFINE rest == Tail(s)
           t == Append(rest, x)
<1>1. s # << >>
  <2>1. Len(<< >>) = 0
    BY EmptySeq
  <2>2. 4 # 0
    OBVIOUS
  <2> QED BY <2>1, <2>2
<1>2. rest \in Seq(S) /\ Len(rest) = Len(s) - 1 /\ \A i \in 1..Len(rest) : rest[i] = s[i + 1]
  BY <1>1, HeadTailProperties
<1> HIDE DEF rest
<1>3. Len(rest) = 3
  BY <1>2
<1>4. /\ t \in Seq(S) /\ Len(t) = Len(rest) + 1 /\ t[Len(rest) + 1] = x
      /\ \A i \in 1..Len(rest) : t[i] = rest[i]
  <2>1. rest \in Seq(S) /\ x \in S
    BY <1>2
  <2>2. t \in Seq(S) /\ Len(t) = Len(rest) + 1
    BY <2>1, AppendProperties
  <2>3. t[Len(rest) + 1] = x
    BY <2>1, AppendProperties
  <2>4. ASSUME NEW i \in 1..Len(rest) PROVE t[i] = rest[i]
    BY <2>1, <2>4, AppendProperties
  <2> QED BY <2>2, <2>3, <2>4
<1> HIDE DEF t
<1>5. Len(t) = 4 /\ t[4] = x /\ \A i \in 1..3 : t[i] = s[i + 1]
  BY <1>2, <1>3, <1>4
<1> QED BY <1>4, <1>5 DEF t, rest

LEMMA WordTyped ==
  ASSUME NEW first \in [1..16 -> Byte], NEW second \in [1..16 -> Byte], NEW k \in 1..8
  PROVE  /\ ShareWordAt(first, second, k) \in [1..4 -> Byte]
         /\ \A j \in 1..4 : ShareWordAt(first, second, k)[j] =
              IF k <= 4 THEN first[4 * (k - 1) + j] ELSE second[4 * (k - 5) + j]
<1>1. ASSUME NEW j \in 1..4
      PROVE  /\ k <= 4 => 4 * (k - 1) + j \in 1..16
             /\ ~(k <= 4) => 4 * ((k - 4) - 1) + j \in 1..16
             /\ 4 * ((k - 4) - 1) + j = 4 * (k - 5) + j
  OBVIOUS
<1> QED BY <1>1 DEF ShareWordAt, Word

\* The block that the driver is at, and its shares.
LEMMA Shares ==
  ASSUME CoreInv, MaskedTyped
  PROVE  /\ mbus # "idle" \/ mat # 1 =>
              /\ mblock \in 1..Len(MaskedBlocks)
              /\ MaskedBlocks[mblock].key \in [1..16 -> Byte]
              /\ MaskedBlocks[mblock].plain \in [1..16 -> Byte]
              /\ MaskedBlocks[mblock].cipher \in [1..16 -> Byte]
         /\ First.key \in [1..16 -> Byte] /\ First.plain \in [1..16 -> Byte]
<1>1. ASSUME mbus # "idle" \/ mat # 1
      PROVE /\ mblock \in 1..Len(MaskedBlocks)
            /\ MaskedBlocks[mblock].key \in [1..16 -> Byte]
            /\ MaskedBlocks[mblock].plain \in [1..16 -> Byte]
            /\ MaskedBlocks[mblock].cipher \in [1..16 -> Byte]
  <2>1. mblock \in 1..Len(MaskedBlocks)
    BY <1>1, MaskedBlocksAssumption DEF MaskedTyped
  <2> DEFINE V == [key : [1..16 -> Byte], plain : [1..16 -> Byte], cipher : [1..16 -> Byte]]
  <2>2. MaskedBlocks \in Seq(V)
    BY MaskedBlocksAssumption
  <2>3. \A v \in V : v.key \in [1..16 -> Byte] /\ v.plain \in [1..16 -> Byte] /\ v.cipher \in [1..16 -> Byte]
    OBVIOUS
  <2> HIDE DEF V
  <2>4. MaskedBlocks[mblock] \in V
    BY <2>1, <2>2
  <2> QED BY <2>1, <2>3, <2>4
<1>2. ASSUME NEW s \in [1..16 -> Byte], NEW t \in [1..16 -> Byte] PROVE Added(s, t) \in [1..16 -> Byte]
  BY XorTyped DEF Added
<1>3. CASE mat <= 8
  <2>1. First = share
    BY <1>3 DEF First
  <2> QED BY <1>1, <2>1 DEF MaskedTyped
<1>4. CASE ~(mat <= 8)
  <2>1. mat # 1
    BY <1>4
  <2>2. /\ First.key = Added(share.key, MaskedBlocks[mblock].key)
        /\ First.plain = Added(share.plain, MaskedBlocks[mblock].plain)
    BY <1>4 DEF First
  <2> QED BY <1>1, <1>2, <2>1, <2>2 DEF MaskedTyped
<1> QED BY <1>1, <1>3, <1>4

\* The words the core takes.
LEMMA OfferedWords ==
  ASSUME CoreInv, MaskedTyped, Queues, mcore.fsm = "Init"
  PROVE  /\ mcore.control + 1 \in 1..8
         /\ mkeyFifo[1] = ShareWordAt(First.key, share.key, mcore.control + 1)
         /\ mplainFifo[1] = ShareWordAt(First.plain, share.plain, mcore.control + 1)
         /\ mkeyFifo[1] \in [1..4 -> Byte] /\ mplainFifo[1] \in [1..4 -> Byte]
<1>1. /\ mat = 20 /\ mcore.control \in 0..7
      /\ Len(mkeyFifo) = 8 - mcore.control /\ Len(mplainFifo) = 8 - mcore.control
  BY LoadsInInit
<1>2. /\ 1 \in 1..Len(mkeyFifo) /\ 1 \in 1..Len(mplainFifo)
      /\ mcore.control + 1 \in 1..8 /\ LoadedWords + 1 = mcore.control + 1
  BY <1>1 DEF LoadedWords
<1>3. /\ mkeyFifo[1] = ShareWordAt(First.key, share.key, mcore.control + 1)
      /\ mplainFifo[1] = ShareWordAt(First.plain, share.plain, mcore.control + 1)
  BY <1>1, <1>2 DEF Queues
<1>4. /\ First.key \in [1..16 -> Byte] /\ First.plain \in [1..16 -> Byte]
      /\ share.key \in [1..16 -> Byte] /\ share.plain \in [1..16 -> Byte]
  BY Shares DEF MaskedTyped
<1>5. /\ ShareWordAt(First.key, share.key, mcore.control + 1) \in [1..4 -> Byte]
      /\ ShareWordAt(First.plain, share.plain, mcore.control + 1) \in [1..4 -> Byte]
  BY <1>2, <1>4, WordTyped
<1> QED BY <1>2, <1>3, <1>5

LEMMA TypedStep ==
  ASSUME CoreInv, MaskedTyped, Queues, MaskedNext
  PROVE  MaskedTyped'
<1>1. PICK word : ShareCycle(Split(word))
  BY ShareStep DEF MaskedNext
<1> DEFINE split == Split(word)
           out == SBox[mcore.stages[1]]
<1>2. split \in Byte /\ {} \in Byte /\ {0} \in Byte /\ Zero \in Text
  BY SplitTyped DEF Byte, Zero, Text
<1>3. out \in Byte /\ Xor(out, split) \in Byte
  <2>1. mcore.stages[1] \in Byte
    BY DEF MaskedTyped
  <2> HIDE DEF split
  <2> QED BY <1>2, <2>1, SBoxTyped, XorTyped
<1>4. Cycle /\ ShareCycle(split)
  BY <1>1, CoreInvStep
<1> HIDE DEF split, out
<1>5. /\ mcore'.state1 \in Text /\ mcore'.state2 \in Text /\ mcore'.key1 \in Text /\ mcore'.key2 \in Text
      /\ mcore'.rcon \in Byte
  <2>1. CASE mcore.fsm = "Idle"
    BY <1>2, <1>4, <2>1 DEF ShareCycle
  <2>2. CASE mcore.fsm = "Init"
    <3>1. mkeyFifo[1] \in [1..4 -> Byte] /\ mplainFifo[1] \in [1..4 -> Byte]
      BY <2>2, OfferedWords
    <3> QED BY <1>4, <2>2, <3>1, ColumnTyped DEF ShareCycle, MaskedTyped
  <2>3. CASE mcore.fsm = "Round"
    <3>1. RoundConstant \in Byte
      BY <1>2 DEF RoundConstant, MaskedTyped
    <3>2. Xor(Xor(out, split), RoundConstant) \in Byte
      BY <1>3, <3>1, XorTyped
    <3>3. /\ mcore'.rcon = (IF mcore.control = 24 THEN Xtime(mcore.rcon) ELSE mcore.rcon)
          /\ mcore'.state1 = StateShare(mcore, mcore.state1, mcore.key1, Xor(out, split))
          /\ mcore'.state2 = StateShare(mcore, mcore.state2, mcore.key2, split)
          /\ mcore'.key1 = KeyShare(mcore, mcore.key1, Xor(Xor(out, split), RoundConstant))
          /\ mcore'.key2 = KeyShare(mcore, mcore.key2, split)
      BY <1>4, <2>3 DEF ShareCycle, out
    <3>4. /\ mcore.state1 \in Text /\ mcore.state2 \in Text /\ mcore.key1 \in Text /\ mcore.key2 \in Text
          /\ mcore.rcon \in Byte
      BY DEF MaskedTyped
    <3> QED BY <1>2, <1>3, <3>2, <3>3, <3>4, StateShareTyped, KeyShareTyped, XtimeTyped
  <2>4. CASE mcore.fsm = "Done"
    BY <1>4, <2>4 DEF ShareCycle, Kept, MaskedTyped
  <2> QED BY <2>1, <2>2, <2>3, <2>4 DEF CoreInv, DriverOK
<1>6. mcore'.stages \in Seq(Byte) /\ Len(mcore'.stages) = 4
  <2>1. SBoxIn(mcore) \in Byte
    <3>1. /\ mcore.state1[0] \in Byte /\ mcore.state2[0] \in Byte /\ mcore.key1[0] \in Byte
          /\ mcore.key2[0] \in Byte /\ mcore.key1[13] \in Byte /\ mcore.key2[13] \in Byte
      BY DEF MaskedTyped, Text, Cell
    <3>2. /\ Xor(mcore.state1[0], mcore.key1[0]) \in Byte /\ Xor(mcore.state2[0], mcore.key2[0]) \in Byte
          /\ Xor(mcore.key1[13], mcore.key2[13]) \in Byte
      BY <3>1, XorTyped
    <3> QED BY <3>2, XorTyped DEF SBoxIn
  <2>2. mcore.stages \in Seq(Byte) /\ Len(mcore.stages) = 4
    BY DEF MaskedTyped
  <2>3. mcore'.stages = Append(Tail(mcore.stages), SBoxIn(mcore))
    BY <1>4 DEF ShareCycle
  <2> QED BY <2>1, <2>2, <2>3, StageStep
<1>7. /\ mblock' \in Nat \ {0} /\ (mbus' # "idle" \/ mat' # 1 => mblock' <= Len(MaskedBlocks))
      /\ share'.key \in [1..16 -> Byte] /\ share'.plain \in [1..16 -> Byte]
  <2>1. /\ mblock \in Nat \ {0} /\ (mbus # "idle" \/ mat # 1 => mblock <= Len(MaskedBlocks))
        /\ share.key \in [1..16 -> Byte] /\ share.plain \in [1..16 -> Byte]
    BY DEF MaskedTyped
  <2>2. mat \in 1..28
    BY DEF CoreInv, DriverOK
  <2>3. CASE ~MaskedAccess /\ UNCHANGED << mat, mblock, share, mfetched >>
             /\ (mbus' # "idle" => mbus # "idle" \/ mblock <= Len(MaskedBlocks))
    BY <2>1, <2>3
  <2>4. CASE ~(~MaskedAccess /\ UNCHANGED << mat, mblock, share, mfetched >>
             /\ (mbus' # "idle" => mbus # "idle" \/ mblock <= Len(MaskedBlocks)))
    <3>1. /\ mbus # "idle" /\ mblock' = (IF mat = 28 THEN mblock + 1 ELSE mblock)
          /\ share' = (IF mat = 8 THEN Remasked ELSE share)
          /\ mat = 28 => mat' = 1
          /\ mbus' # "idle" => mblock' <= Len(MaskedBlocks)
      BY <2>4, Driven
    <3>2. /\ Remasked.key = Added(share.key, MaskedBlocks[mblock].key)
          /\ Remasked.plain = Added(share.plain, MaskedBlocks[mblock].plain)
      BY DEF Remasked
    <3>3. Remasked.key \in [1..16 -> Byte] /\ Remasked.plain \in [1..16 -> Byte]
      <4>1. ASSUME NEW s \in [1..16 -> Byte], NEW t \in [1..16 -> Byte]
            PROVE  Added(s, t) \in [1..16 -> Byte]
        BY XorTyped DEF Added
      <4> QED BY <2>1, <3>1, <3>2, <4>1, Shares
    <3> QED BY <2>1, <2>2, <3>1, <3>3
  <2> QED BY <2>3, <2>4
<1>8. /\ mcore'.fsm \in {"Init", "Done"} =>
           /\ mcore'.control1 = (IF mcore'.control < 4 THEN mcore'.control ELSE 0)
           /\ mcore'.control2 = (IF mcore'.control \in 4..7 THEN mcore'.control - 4 ELSE 0)
      /\ mcore'.fsm = "Round" => mcore'.control1 = 0 /\ mcore'.control2 = 0
      /\ mcore'.fsm = "Init" => mcore'.rcon = {0}
  <2>1. CASE mcore.fsm = "Idle"
    BY <1>4, <2>1 DEF ShareCycle, Cycle, CoreCycle
  <2>2. CASE mcore.fsm = "Init"
    <3>1. /\ mcore.control \in 0..7 /\ mcore.rcon = {0}
          /\ mcore.control1 = (IF mcore.control < 4 THEN mcore.control ELSE 0)
          /\ mcore.control2 = (IF mcore.control \in 4..7 THEN mcore.control - 4 ELSE 0)
          /\ Loads(1) \/ Loads(2)
      BY <2>2, LoadsInInit DEF MaskedTyped
    <3>2. /\ mcore'.control1 = (mcore.control1 + (IF mcore.control < 4 THEN 1 ELSE 0)) % 4
          /\ mcore'.control2 = (mcore.control2 + (IF ~(mcore.control < 4) THEN 1 ELSE 0)) % 4
          /\ mcore'.rcon = mcore.rcon
      BY <1>4, <2>2 DEF ShareCycle, Counts
    <3>3. IF mcore.control = 7 THEN mcore'.fsm = "Round" /\ mcore'.control = 0
          ELSE mcore'.fsm = "Init" /\ mcore'.control = mcore.control + 1
      BY <1>4, <2>2, <3>1 DEF Cycle, CoreCycle
    <3>4. CASE mcore.control < 4
      BY <3>1, <3>2, <3>3, <3>4
    <3>5. CASE ~(mcore.control < 4)
      BY <3>1, <3>2, <3>3, <3>5
    <3> QED BY <3>4, <3>5
  <2>3. CASE mcore.fsm = "Round"
    <3>1. mcore'.control1 = 0 /\ mcore'.control2 = 0
      BY <1>4, <2>3 DEF ShareCycle, Counts, MaskedTyped
    <3>2. mcore'.fsm \in {"Round", "Done"} /\ (mcore'.fsm = "Done" => mcore'.control = 0)
      BY <1>4, <2>3 DEF Cycle, CoreCycle
    <3> QED BY <3>1, <3>2
  <2>4. CASE mcore.fsm = "Done"
    <3>1. mcore.control \in 0..8 /\ (ReadsMaskedCipher => mcore.control \in 0..7)
      BY <2>4 DEF CoreInv, DriverOK, Filling, Running, Fetching, ReadsMaskedCipher
    <3>2. /\ mcore.control1 = (IF mcore.control < 4 THEN mcore.control ELSE 0)
          /\ mcore.control2 = (IF mcore.control \in 4..7 THEN mcore.control - 4 ELSE 0)
      BY <2>4 DEF MaskedTyped
    <3>3. Counts(ReadsMaskedCipher /\ mcore.control < 4, ReadsMaskedCipher /\ ~(mcore.control < 4))
      BY <1>4, <2>4 DEF ShareCycle
    <3>4. /\ mcore'.fsm \in {"Idle", "Done"}
          /\ mcore'.control = mcore.control + (IF ReadsMaskedCipher THEN 1 ELSE 0)
      BY <1>4, <2>4 DEF Cycle, CoreCycle
    <3>5. CASE ReadsMaskedCipher /\ mcore.control < 4
      BY <3>1, <3>2, <3>3, <3>4, <3>5 DEF Counts
    <3>6. CASE ReadsMaskedCipher /\ ~(mcore.control < 4)
      BY <3>1, <3>2, <3>3, <3>4, <3>6 DEF Counts
    <3>7. CASE ~ReadsMaskedCipher
      BY <3>1, <3>2, <3>3, <3>4, <3>7 DEF Counts
    <3> QED BY <3>5, <3>6, <3>7
  <2> QED BY <2>1, <2>2, <2>3, <2>4 DEF CoreInv, DriverOK
<1> QED BY <1>5, <1>6, <1>7, <1>8 DEF MaskedTyped

-----------------------------------------------------------------------------
(* The words in the queues, and the columns they become.                   *)

\* The first share is the same before and after main.c:145 makes the second.
LEMMA FirstKept ==
  ASSUME CoreInv, MaskedTyped, MaskedNext, mat \in 1..20
  PROVE  /\ mat' \in 1..20 => First'.key = First.key /\ First'.plain = First.plain
         /\ mat # 8 => share' = share
<1>1. \/ mat' = mat /\ mblock' = mblock /\ share' = share
      \/ /\ mbus # "idle" /\ mblock' = mblock /\ share' = (IF mat = 8 THEN Remasked ELSE share)
         /\ mat' \in 1..20 => mat' = mat \/ mat' = mat + 1
         /\ mat = 8 => mat' = 9
  BY Driven
<1>2. CASE mat' = mat /\ mblock' = mblock /\ share' = share
  BY <1>2 DEF First
<1>3. CASE /\ mbus # "idle" /\ mblock' = mblock /\ share' = (IF mat = 8 THEN Remasked ELSE share)
           /\ mat' \in 1..20 => mat' = mat \/ mat' = mat + 1
           /\ mat = 8 => mat' = 9
  <2>1. CASE mat # 8
    <3>1. share' = share /\ (mat' \in 1..20 => (mat' <= 8 <=> mat <= 8))
      BY <1>3, <2>1, Driven
    <3> QED BY <1>3, <2>1, <3>1 DEF First
  <2>2. CASE mat = 8
    <3> DEFINE block16 == MaskedBlocks[mblock]
    <3>1. /\ block16.key \in [1..16 -> Byte] /\ block16.plain \in [1..16 -> Byte]
          /\ share.key \in [1..16 -> Byte] /\ share.plain \in [1..16 -> Byte]
      BY <1>3, Shares DEF MaskedTyped
    <3>2. share'.key = Added(share.key, block16.key) /\ share'.plain = Added(share.plain, block16.plain)
      BY <1>3, <2>2 DEF Remasked
    <3>3. mat' = 9
      BY <1>3, <2>2
    <3>4. /\ First'.key = Added(share'.key, block16.key)
          /\ First'.plain = Added(share'.plain, block16.plain)
      BY <1>3, <3>3 DEF First
    <3>5. ASSUME NEW s \in [1..16 -> Byte], NEW t \in [1..16 -> Byte]
          PROVE  Added(Added(s, t), t) = s
      <4>1. \A n \in 1..16 : Xor(Xor(s[n], t[n]), t[n]) = s[n]
        BY XorGroup
      <4> QED BY <4>1 DEF Added
    <3>6. First = share
      BY <2>2 DEF First
    <3> HIDE DEF block16
    <3> QED BY <2>2, <3>1, <3>2, <3>4, <3>5, <3>6
  <2> QED BY <2>1, <2>2
<1> QED BY <1>1, <1>2, <1>3

LEMMA WordsKept ==
  ASSUME NEW first, NEW second, NEW other, NEW k \in Nat, k <= 4
  PROVE  ShareWordAt(first, second, k) = ShareWordAt(first, other, k)
BY DEF ShareWordAt

\* One queue: what is in it stays, and the word of this access goes to its end.
LEMMA OneQueue ==
  ASSUME CoreInv, mcore.fsm # "Init", mat \in 1..20, NEW q, IsSequence(q), NEW writes \in BOOLEAN,
         NEW first, NEW second, NEW second2, mat # 8 => second2 = second,
         mat <= 8 => second = first /\ Len(q) <= 3 + (IF writes THEN 0 ELSE 1),
         writes => mat \in 1..16 /\ Len(q) = (mat - 1) \div 2,
         \A i \in 1..Len(q) : q[i] = ShareWordAt(first, second, i)
  PROVE  LET next == QueueNext(q, ShareDepth, writes, ShareWord(second), Taken(q))
         IN \A i \in 1..Len(next) : next[i] = ShareWordAt(first, second2, i)
<1> DEFINE word == ShareWord(second)
           next == QueueNext(q, ShareDepth, writes, word, Taken(q))
<1>1. ~Taken(q)
  BY Takes DEF CoreInv, DriverOK
<1> HIDE DEF word, next
<1>2. /\ Len(q) \in Nat
      /\ Len(next) = Len(q) + (IF writes /\ Len(q) < 8 THEN 1 ELSE 0)
      /\ \A i \in 1..Len(next) : next[i] = IF i <= Len(q) THEN q[i] ELSE word
  <2>1. PICK S : q \in Seq(S)
    BY DEF IsSequence
  <2> DEFINE T == S \cup {word}
  <2>2. q \in Seq(T) /\ word \in T
    BY <2>1
  <2> HIDE DEF T
  <2>3. Taken(q) \in BOOLEAN /\ (Taken(q) => q # << >>) /\ ShareDepth \in Nat /\ ShareDepth = 8
    BY DEF Taken, ShareDepth
  <2>4. Stepped(T, q, next, ShareDepth, writes, word, Taken(q))
    BY <2>2, <2>3, QueueStep DEF next
  <2>5. Len(q) \in Nat
    BY <2>2
  <2> QED BY <1>1, <2>3, <2>4, <2>5 DEF Stepped
<1>3. ASSUME NEW i \in 1..Len(next) PROVE next[i] = ShareWordAt(first, second2, i)
  <2>1. i \in Nat /\ i <= Len(next)
    BY <1>2
  <2>2. CASE i <= Len(q)
    <3>1. i \in 1..Len(q) /\ next[i] = ShareWordAt(first, second, i)
      BY <1>2, <2>2
    <3>2. mat = 8 => i <= 4
      BY <1>2, <2>2
    <3> QED BY <2>1, <3>1, <3>2, WordsKept
  <2>3. CASE ~(i <= Len(q))
    <3>1. /\ writes /\ i = Len(q) + 1 /\ mat \in 1..16
          /\ i = ((mat - 1) \div 2) + 1
      BY <1>2, <2>1, <2>3
    <3>2. next[i] = word
      BY <1>2, <2>3
    <3>3. CASE mat <= 8
      <4>1. i <= 4 /\ (((mat - 1) \div 2) % 4) + 1 = i /\ second = first
        BY <3>1, <3>3
      <4>2. word = Word(first, i)
        BY <4>1 DEF word, ShareWord
      <4>3. ShareWordAt(first, second2, i) = Word(first, i)
        BY <4>1 DEF ShareWordAt
      <4> QED BY <3>2, <4>2, <4>3
    <3>4. CASE 9 <= mat
      <4>1. ~(i <= 4) /\ (((mat - 1) \div 2) % 4) + 1 = i - 4 /\ second2 = second
        BY <3>1, <3>4
      <4>2. word = Word(second, i - 4)
        BY <4>1 DEF word, ShareWord
      <4>3. ShareWordAt(first, second2, i) = Word(second, i - 4)
        BY <4>1 DEF ShareWordAt
      <4> QED BY <3>2, <4>2, <4>3
    <3> QED BY <3>1, <3>3, <3>4
  <2> QED BY <2>2, <2>3
<1> QED BY <1>3 DEF next, word

LEMMA QueuesStep ==
  ASSUME CoreInv, MaskedTyped, Queues, MaskedNext
  PROVE  Queues'
<1> SUFFICES ASSUME mat' \in 1..20
    PROVE  /\ \A i \in 1..Len(mkeyFifo') :
                mkeyFifo'[i] = ShareWordAt(First'.key, share'.key, LoadedWords' + i)
           /\ \A i \in 1..Len(mplainFifo') :
                mplainFifo'[i] = ShareWordAt(First'.plain, share'.plain, LoadedWords' + i)
  BY DEF Queues
<1>1. CoreInv' /\ Cycle
  BY CoreInvStep
<1>2. /\ mkeyFifo' = QueueNext(mkeyFifo, ShareDepth, WritesKeyShare, ShareWord(share.key), Taken(mkeyFifo))
      /\ mplainFifo' = QueueNext(mplainFifo, ShareDepth, WritesPlainShare, ShareWord(share.plain), Taken(mplainFifo))
      /\ IsSequence(mkeyFifo) /\ IsSequence(mplainFifo)
  BY DEF MaskedNext, MaskedPeripheralNext, CoreInv, DriverOK
<1>3. CASE mcore.fsm = "Init"
  <2>1. /\ mat = 20 /\ mcore.control \in 0..7
        /\ Len(mkeyFifo) = 8 - mcore.control /\ Len(mplainFifo) = 8 - mcore.control
        /\ Taken(mkeyFifo) /\ Taken(mplainFifo)
        /\ mkeyFifo # << >> /\ mplainFifo # << >>
        /\ Loads(1) \/ Loads(2)
    BY <1>3, LoadsInInit
  <2>2. ~WritesKeyShare /\ ~WritesPlainShare
    BY <2>1 DEF WritesKeyShare, WritesPlainShare
  <2>3. ASSUME NEW q, IsSequence(q), q # << >>, NEW word
        PROVE  LET next == QueueNext(q, ShareDepth, FALSE, word, TRUE)
               IN Len(next) = Len(q) - 1 /\ \A i \in 1..Len(next) : next[i] = q[i + 1]
    <3>1. PICK S : q \in Seq(S)
      BY <2>3 DEF IsSequence
    <3> DEFINE T == S \cup {word}
               next == QueueNext(q, ShareDepth, FALSE, word, TRUE)
    <3>2. q \in Seq(T) /\ word \in T
      BY <3>1
    <3> HIDE DEF T, next
    <3>3. Stepped(T, q, next, 8, FALSE, word, TRUE)
      BY <2>3, <3>2, QueueStep DEF ShareDepth, next
    <3>4. Len(q) \in Nat
      BY <3>2
    <3>5. Len(next) = Len(q) - 1 /\ \A i \in 1..Len(next) : next[i] = IF i + 1 <= Len(q) THEN q[i + 1] ELSE word
      BY <3>3, <3>4 DEF Stepped
    <3>6. \A i \in 1..Len(next) : i + 1 <= Len(q)
      BY <3>4, <3>5
    <3> QED BY <3>5, <3>6 DEF next
  <2>4. /\ Len(mkeyFifo') = Len(mkeyFifo) - 1 /\ \A i \in 1..Len(mkeyFifo') : mkeyFifo'[i] = mkeyFifo[i + 1]
        /\ Len(mplainFifo') = Len(mplainFifo) - 1
        /\ \A i \in 1..Len(mplainFifo') : mplainFifo'[i] = mplainFifo[i + 1]
    <3>1. /\ WritesKeyShare = FALSE /\ WritesPlainShare = FALSE
          /\ Taken(mkeyFifo) = TRUE /\ Taken(mplainFifo) = TRUE
      BY <2>1, <2>2 DEF WritesKeyShare, WritesPlainShare, Taken
    <3>2. /\ mkeyFifo' = QueueNext(mkeyFifo, ShareDepth, FALSE, ShareWord(share.key), TRUE)
          /\ mplainFifo' = QueueNext(mplainFifo, ShareDepth, FALSE, ShareWord(share.plain), TRUE)
      BY <1>2, <3>1
    <3>3. IsSequence(mkeyFifo) /\ mkeyFifo # << >> /\ IsSequence(mplainFifo) /\ mplainFifo # << >>
      BY <1>2, <2>1
    <3>4. Len(mkeyFifo') = Len(mkeyFifo) - 1 /\ \A i \in 1..Len(mkeyFifo') : mkeyFifo'[i] = mkeyFifo[i + 1]
      BY <2>3, <3>2, <3>3
    <3>5. /\ Len(mplainFifo') = Len(mplainFifo) - 1
          /\ \A i \in 1..Len(mplainFifo') : mplainFifo'[i] = mplainFifo[i + 1]
      BY <2>3, <3>2, <3>3
    <3> QED BY <3>4, <3>5
  <2>5. IF mcore.control = 7 THEN mcore'.fsm = "Round" /\ mcore'.control = 0
        ELSE mcore'.fsm = "Init" /\ mcore'.control = mcore.control + 1
    BY <1>1, <1>3, <2>1 DEF Cycle, CoreCycle
  <2>6. First'.key = First.key /\ First'.plain = First.plain /\ share' = share
    BY <2>1, FirstKept
  <2>7. CASE mcore.control = 7
    BY <2>1, <2>4, <2>7
  <2>8. CASE mcore.control # 7
    <3>1. LoadedWords = mcore.control /\ LoadedWords' = mcore.control + 1
      BY <1>3, <2>5, <2>8 DEF LoadedWords
    <3>2. ASSUME NEW i \in 1..Len(mkeyFifo')
          PROVE  mkeyFifo'[i] = ShareWordAt(First'.key, share'.key, LoadedWords' + i)
      <4>0. Len(mkeyFifo) = 8 - mcore.control /\ Len(mkeyFifo') = 7 - mcore.control
        BY <2>1, <2>4
      <4>1. i + 1 \in 1..Len(mkeyFifo) /\ LoadedWords' + i = LoadedWords + (i + 1)
        <5> DEFINE n == mcore.control
        <5>1. n \in 0..7 /\ i \in 1..(7 - n) /\ LoadedWords = n /\ LoadedWords' = n + 1
          BY <2>1, <3>1, <4>0
        <5> HIDE DEF n
        <5>2. i + 1 \in 1..(8 - n) /\ LoadedWords' + i = LoadedWords + (i + 1)
          BY <5>1
        <5> QED BY <4>0, <5>2 DEF n
      <4>2. mkeyFifo[i + 1] = ShareWordAt(First.key, share.key, LoadedWords + (i + 1))
        BY <2>1, <4>1 DEF Queues
      <4> QED BY <2>4, <2>6, <4>1, <4>2
    <3>3. ASSUME NEW i \in 1..Len(mplainFifo')
          PROVE  mplainFifo'[i] = ShareWordAt(First'.plain, share'.plain, LoadedWords' + i)
      <4>0. Len(mplainFifo) = 8 - mcore.control /\ Len(mplainFifo') = 7 - mcore.control
        BY <2>1, <2>4
      <4>1. i + 1 \in 1..Len(mplainFifo) /\ LoadedWords' + i = LoadedWords + (i + 1)
        <5> DEFINE n == mcore.control
        <5>1. n \in 0..7 /\ i \in 1..(7 - n) /\ LoadedWords = n /\ LoadedWords' = n + 1
          BY <2>1, <3>1, <4>0
        <5> HIDE DEF n
        <5>2. i + 1 \in 1..(8 - n) /\ LoadedWords' + i = LoadedWords + (i + 1)
          BY <5>1
        <5> QED BY <4>0, <5>2 DEF n
      <4>2. mplainFifo[i + 1] = ShareWordAt(First.plain, share.plain, LoadedWords + (i + 1))
        BY <2>1, <4>1 DEF Queues
      <4> QED BY <2>4, <2>6, <4>1, <4>2
    <3> QED BY <3>2, <3>3
  <2> QED BY <2>7, <2>8
<1>4. CASE mcore.fsm # "Init" /\ mat \in 1..20
  <2>1. LoadedWords = 0 /\ LoadedWords' = 0
    BY <1>1, <1>4 DEF LoadedWords, Cycle, CoreCycle, CoreInv, DriverOK
  <2>2. First'.key = First.key /\ First'.plain = First.plain /\ (mat # 8 => share' = share)
    BY <1>4, FirstKept
  <2>3. /\ WritesKeyShare \in BOOLEAN /\ WritesPlainShare \in BOOLEAN
        /\ WritesKeyShare => mat \in 1..16 /\ mat % 2 = 1
        /\ WritesPlainShare => mat \in 1..16 /\ mat % 2 = 0
    BY DEF WritesKeyShare, WritesPlainShare
  <2>4. mat \in 1..16 => Len(mkeyFifo) = mat \div 2 /\ Len(mplainFifo) = (mat - 1) \div 2
    BY DEF CoreInv, Filling, Queued
  <2>5. mat <= 8 => First = share
    BY DEF First
  <2>6. /\ \A i \in 1..Len(mkeyFifo) : mkeyFifo[i] = ShareWordAt(First.key, share.key, i)
        /\ \A i \in 1..Len(mplainFifo) : mplainFifo[i] = ShareWordAt(First.plain, share.plain, i)
    <3>1. Len(mkeyFifo) \in Nat /\ Len(mplainFifo) \in Nat
      BY <1>4, <1>1, OtherwiseStep
    <3>2. \A i \in 1..Len(mkeyFifo) : LoadedWords + i = i
      BY <2>1, <3>1
    <3>3. \A i \in 1..Len(mplainFifo) : LoadedWords + i = i
      BY <2>1, <3>1
    <3> QED BY <1>4, <3>2, <3>3 DEF Queues
  <2>7. /\ WritesKeyShare => Len(mkeyFifo) = (mat - 1) \div 2
        /\ mat <= 8 => Len(mkeyFifo) <= 3 + (IF WritesKeyShare THEN 0 ELSE 1)
        /\ WritesPlainShare => Len(mplainFifo) = (mat - 1) \div 2
        /\ mat <= 8 => Len(mplainFifo) <= 3 + (IF WritesPlainShare THEN 0 ELSE 1)
    BY <1>4, <2>3, <2>4
  <2>8. \A i \in 1..Len(mkeyFifo') : mkeyFifo'[i] = ShareWordAt(First.key, share'.key, i)
    <3> DEFINE first == First.key
               second == share.key
               second2 == share'.key
    <3>1. (mat # 8 => second2 = second) /\ (mat <= 8 => second = first)
      BY <2>2, <2>5
    <3> HIDE DEF first
    <3>2. \A i \in 1..Len(mkeyFifo) : mkeyFifo[i] = ShareWordAt(first, second, i)
      BY <2>6 DEF first
    <3> HIDE DEF second, second2
    <3>3. mkeyFifo' = QueueNext(mkeyFifo, ShareDepth, WritesKeyShare, ShareWord(second), Taken(mkeyFifo))
      BY <1>2 DEF second
    <3>4. /\ IsSequence(mkeyFifo) /\ WritesKeyShare \in BOOLEAN /\ mat \in 1..20 /\ mcore.fsm # "Init"
          /\ mat <= 8 => second = first /\ Len(mkeyFifo) <= 3 + (IF WritesKeyShare THEN 0 ELSE 1)
          /\ WritesKeyShare => mat \in 1..16 /\ Len(mkeyFifo) = (mat - 1) \div 2
      BY <1>2, <1>4, <2>3, <2>7, <3>1
    <3>5. \A i \in 1..Len(mkeyFifo') : mkeyFifo'[i] = ShareWordAt(first, second2, i)
      BY <3>1, <3>2, <3>3, <3>4, OneQueue
    <3> QED BY <3>5 DEF first, second2
  <2>9. \A i \in 1..Len(mplainFifo') : mplainFifo'[i] = ShareWordAt(First.plain, share'.plain, i)
    <3> DEFINE first == First.plain
               second == share.plain
               second2 == share'.plain
    <3>1. (mat # 8 => second2 = second) /\ (mat <= 8 => second = first)
      BY <2>2, <2>5
    <3> HIDE DEF first
    <3>2. \A i \in 1..Len(mplainFifo) : mplainFifo[i] = ShareWordAt(first, second, i)
      BY <2>6 DEF first
    <3> HIDE DEF second, second2
    <3>3. mplainFifo' = QueueNext(mplainFifo, ShareDepth, WritesPlainShare, ShareWord(second), Taken(mplainFifo))
      BY <1>2 DEF second
    <3>4. /\ IsSequence(mplainFifo) /\ WritesPlainShare \in BOOLEAN /\ mat \in 1..20 /\ mcore.fsm # "Init"
          /\ mat <= 8 => second = first /\ Len(mplainFifo) <= 3 + (IF WritesPlainShare THEN 0 ELSE 1)
          /\ WritesPlainShare => mat \in 1..16 /\ Len(mplainFifo) = (mat - 1) \div 2
      BY <1>2, <1>4, <2>3, <2>7, <3>1
    <3>5. \A i \in 1..Len(mplainFifo') : mplainFifo'[i] = ShareWordAt(first, second2, i)
      BY <3>1, <3>2, <3>3, <3>4, OneQueue
    <3> QED BY <3>5 DEF first, second2
  <2>10. /\ \A i \in 1..Len(mkeyFifo') : LoadedWords' + i = i
         /\ \A i \in 1..Len(mplainFifo') : LoadedWords' + i = i
    <3>1. Len(mkeyFifo') \in Nat /\ Len(mplainFifo') \in Nat
      BY <1>1 DEF CoreInv, DriverOK, IsSequence
    <3> QED BY <2>1, <3>1
  <2> QED BY <2>2, <2>8, <2>9, <2>10
<1>5. CASE mat \in 21..28
  <2>1. mcore.fsm = "Done" /\ Queued(0, 0) /\ ~WritesKeyShare /\ ~WritesPlainShare
    BY <1>5 DEF CoreInv, Fetching, WritesKeyShare, WritesPlainShare
  <2>2. Len(mkeyFifo') = 0 /\ Len(mplainFifo') = 0
    BY <1>1, <2>1, OtherwiseStep DEF Queued
  <2> QED BY <2>2
<1> QED BY <1>3, <1>4, <1>5 DEF CoreInv, DriverOK

LEMMA HoldsMore ==
  ASSUME NEW regs1, NEW regs2, NEW next1, NEW next2, NEW first \in [1..16 -> Byte],
         NEW second \in [1..16 -> Byte], NEW k \in 0..7, Holds(regs1, regs2, first, second, k),
         NEW word, word = ShareWordAt(first, second, k + 1),
         k < 4 => next1 = Column(regs1, k, word) /\ next2 = regs2,
         ~(k < 4) => next1 = regs1 /\ next2 = Column(regs2, k - 4, word)
  PROVE  Holds(next1, next2, first, second, k + 1)
<1>1. \A j \in 1..4 : word[j] = IF k < 4 THEN first[4 * k + j] ELSE second[4 * (k - 4) + j]
  <2>1. k + 1 \in 1..8 /\ (k + 1) - 1 = k /\ (k + 1) - 5 = k - 4 /\ (k + 1 <= 4 <=> k < 4)
    OBVIOUS
  <2> QED BY <2>1, WordTyped
<1>2. ASSUME NEW n \in Cell
      PROVE  /\ Col(n) < k + 1 => next1[n] = first[n + 1]
             /\ Col(n) + 4 < k + 1 => next2[n] = second[n + 1]
  <2>1. /\ Row(n) + 1 \in 1..4 /\ Col(n) \in 0..3 /\ 4 * Col(n) + (Row(n) + 1) = n + 1
    BY CellArith
  <2>2. /\ Col(n) < k => regs1[n] = first[n + 1]
        /\ Col(n) + 4 < k => regs2[n] = second[n + 1]
    BY DEF Holds
  <2>3. CASE k < 4
    <3>1. next1[n] = (IF Col(n) = k THEN word[Row(n) + 1] ELSE regs1[n]) /\ next2 = regs2
      BY <2>3 DEF Column
    <3>2. Col(n) = k => word[Row(n) + 1] = first[n + 1]
      BY <1>1, <2>1, <2>3
    <3> QED BY <2>1, <2>2, <2>3, <3>1, <3>2
  <2>4. CASE ~(k < 4)
    <3>1. next2[n] = (IF Col(n) = k - 4 THEN word[Row(n) + 1] ELSE regs2[n]) /\ next1 = regs1
      BY <2>4 DEF Column
    <3>2. Col(n) = k - 4 => word[Row(n) + 1] = second[n + 1]
      BY <1>1, <2>1, <2>4
    <3> QED BY <2>1, <2>2, <2>4, <3>1, <3>2
  <2> QED BY <2>3, <2>4
<1> QED BY <1>2 DEF Holds

LEMMA LoadingKept ==
  ASSUME CoreInv, Supplied, MaskedTyped, Queues, InLoading, MaskedNext
  PROVE  InLoading'
<1>1. PICK word : ShareCycle(Split(word))
  BY ShareStep DEF MaskedNext
<1>2. CoreInv' /\ Cycle
  BY CoreInvStep
<1>3. CASE mcore.fsm = "Idle"
  <2>1. mcore'.control = 0 /\ mcore'.fsm # "Round"
    BY <1>2, <1>3 DEF Cycle, CoreCycle
  <2>2. ASSUME NEW r1, NEW r2, NEW f, NEW s PROVE Holds(r1, r2, f, s, 0)
    <3>1. \A n \in Cell : ~(Col(n) < 0) /\ ~(Col(n) + 4 < 0)
      BY CellArith
    <3> QED BY <3>1 DEF Holds
  <2> QED BY <2>1, <2>2 DEF InLoading, Loaded
<1>4. CASE mcore.fsm = "Init"
  <2> DEFINE k == mcore.control
  <2>1. /\ mat = 20 /\ k \in 0..7 /\ (Loads(1) \/ Loads(2))
    BY <1>4, LoadsInInit
  <2>2. /\ mcore.control1 = (IF k < 4 THEN k ELSE 0) /\ mcore.control2 = (IF k \in 4..7 THEN k - 4 ELSE 0)
    BY <1>4 DEF MaskedTyped
  <2>3. /\ mkeyFifo[1] = ShareWordAt(First.key, share.key, k + 1)
        /\ mplainFifo[1] = ShareWordAt(First.plain, share.plain, k + 1)
    BY <1>4, OfferedWords
  <2>4. /\ First.key \in [1..16 -> Byte] /\ First.plain \in [1..16 -> Byte]
        /\ share.key \in [1..16 -> Byte] /\ share.plain \in [1..16 -> Byte]
    BY Shares DEF MaskedTyped
  <2>5. /\ First'.key = First.key /\ First'.plain = First.plain /\ share' = share
    <3>1. mat' = 20
      BY <1>4, Working
    <3> QED BY <2>1, <3>1, FirstKept
  <2>6. /\ Holds(mcore.state1, mcore.state2, First.plain, share.plain, k)
        /\ Holds(mcore.key1, mcore.key2, First.key, share.key, k)
    BY <1>4 DEF InLoading, Loaded
  <2>7. /\ k < 4 => /\ mcore'.state1 = Column(mcore.state1, k, mplainFifo[1])
                    /\ mcore'.key1 = Column(mcore.key1, k, mkeyFifo[1])
                    /\ mcore'.state2 = mcore.state2 /\ mcore'.key2 = mcore.key2
        /\ ~(k < 4) => /\ mcore'.state2 = Column(mcore.state2, k - 4, mplainFifo[1])
                       /\ mcore'.key2 = Column(mcore.key2, k - 4, mkeyFifo[1])
                       /\ mcore'.state1 = mcore.state1 /\ mcore'.key1 = mcore.key1
    <3>1. (k < 4 => mcore.control1 = k) /\ (~(k < 4) => mcore.control2 = k - 4)
      BY <2>1, <2>2
    <3> QED BY <1>1, <1>4, <3>1 DEF ShareCycle
  <2>8. IF k = 7 THEN mcore'.fsm = "Round" /\ mcore'.control = 0
        ELSE mcore'.fsm = "Init" /\ mcore'.control = k + 1
    BY <1>2, <1>4, <2>1 DEF Cycle, CoreCycle
  <2> HIDE DEF k
  <2>9. Holds(mcore'.state1, mcore'.state2, First.plain, share.plain, k + 1)
    BY <2>1, <2>3, <2>4, <2>6, <2>7, HoldsMore
  <2>10. Holds(mcore'.key1, mcore'.key2, First.key, share.key, k + 1)
    BY <2>1, <2>3, <2>4, <2>6, <2>7, HoldsMore
  <2>11. CASE k = 7
    <3>1. k + 1 = 8
      BY <2>11
    <3>2. Loaded(8)'
      BY <2>5, <2>9, <2>10, <3>1 DEF Loaded
    <3> QED BY <2>8, <2>11, <3>2 DEF InLoading
  <2>12. CASE k # 7
    <3>1. mcore'.control = k + 1 /\ mcore'.fsm = "Init"
      BY <2>8, <2>12
    <3>2. Loaded(mcore.control)'
      BY <2>5, <2>9, <2>10, <3>1 DEF Loaded
    <3> QED BY <3>1, <3>2 DEF InLoading
  <2> QED BY <2>11, <2>12
<1>5. CASE mcore.fsm = "Round"
  <2>1. mcore'.fsm # "Init" /\ ~(mcore'.fsm = "Round" /\ mcore'.round = 1 /\ mcore'.control = 0)
    <3>1. mcore.control \in IF mcore.round = 11 THEN 0..15 ELSE 0..24
      BY <1>5 DEF Supplied
    <3>2. mcore.round \in 1..11
      BY DEF CoreInv, DriverOK
    <3> QED BY <1>2, <1>5, <3>1, <3>2 DEF Cycle, CoreCycle
  <2> QED BY <2>1 DEF InLoading
<1>6. CASE mcore.fsm = "Done"
  <2>1. mcore'.fsm # "Init" /\ mcore'.fsm # "Round"
    BY <1>2, <1>6 DEF Cycle, CoreCycle
  <2> QED BY <2>1 DEF InLoading
<1> QED BY <1>3, <1>4, <1>5, <1>6 DEF CoreInv, DriverOK

-----------------------------------------------------------------------------
(* The rounds.                                                             *)

\* In a round the sum of the shares takes the steps that the register files would.
LEMMA SumStep ==
  ASSUME CoreInv, MaskedTyped, MaskedNext, mcore.fsm = "Round"
  PROVE  LET out == SBox[mcore.stages[1]]
         IN /\ WholeState' = StateShare(mcore, WholeState, WholeKey, out)
            /\ WholeKey' = KeyShare(mcore, WholeKey, Xor(out, RoundConstant))
            /\ SBoxIn(mcore) = IF mcore.control < 16 THEN Xor(WholeState[0], WholeKey[0])
                               ELSE WholeKey[13]
<1>1. PICK word : ShareCycle(Split(word))
  BY ShareStep DEF MaskedNext
<1> DEFINE split == Split(word)
           out == SBox[mcore.stages[1]]
           s1 == mcore.state1  s2 == mcore.state2  k1 == mcore.key1  k2 == mcore.key2
<1>2. /\ mcore'.state1 = StateShare(mcore, s1, k1, Xor(out, split))
      /\ mcore'.state2 = StateShare(mcore, s2, k2, split)
      /\ mcore'.key1 = KeyShare(mcore, k1, Xor(Xor(out, split), RoundConstant))
      /\ mcore'.key2 = KeyShare(mcore, k2, split)
  BY <1>1 DEF ShareCycle
<1>3. s1 \in Text /\ s2 \in Text
  BY DEF MaskedTyped
<1> HIDE DEF split, out
<1>4. /\ Xor(Xor(out, split), split) = out
      /\ Xor(Xor(Xor(out, split), RoundConstant), split) = Xor(out, RoundConstant)
  <2>1. \A a, b, c : Xor(Xor(a, b), b) = a /\ Xor(Xor(Xor(a, b), c), b) = Xor(a, c)
    <3>1. ASSUME NEW a, NEW b, NEW c
          PROVE  Xor(Xor(a, b), b) = a /\ Xor(Xor(Xor(a, b), c), b) = Xor(a, c)
      <4>1. Xor(Xor(a, b), b) = a
        <5>1. Xor(a, Xor(b, b)) = Xor(Xor(a, b), b)
          BY XorGroup
        <5>2. Xor(b, b) = {} /\ Xor(a, {}) = a
          BY XorGroup
        <5> QED BY <5>1, <5>2
      <4>2. Xor(Xor(Xor(a, b), c), b) = Xor(Xor(Xor(a, b), b), Xor(c, {}))
        BY XorSwaps, XorGroup
      <4> QED BY <4>1, <4>2, XorGroup
    <3> QED BY <3>1
  <2> QED BY <2>1
<1>5. Joined(mcore'.state1, mcore'.state2) = StateShare(mcore, Joined(s1, s2), Joined(k1, k2), out)
  <2> HIDE DEF s1, s2, k1, k2
  <2> QED BY <1>2, <1>3, <1>4, StateSum
<1>6. Joined(mcore'.key1, mcore'.key2) = KeyShare(mcore, Joined(k1, k2), Xor(out, RoundConstant))
  <2> HIDE DEF s1, s2, k1, k2
  <2> QED BY <1>2, <1>4, KeySum
<1>7. SBoxIn(mcore) = IF mcore.control < 16 THEN Xor(Joined(s1, s2)[0], Joined(k1, k2)[0])
                      ELSE Joined(k1, k2)[13]
  <2>1. 0 \in Cell /\ 13 \in Cell
    BY DEF Cell
  <2>2. /\ Joined(s1, s2)[0] = Xor(s1[0], s2[0]) /\ Joined(k1, k2)[0] = Xor(k1[0], k2[0])
        /\ Joined(k1, k2)[13] = Xor(k1[13], k2[13])
    BY <2>1 DEF Joined
  <2>3. SBoxIn(mcore) = IF mcore.control < 16 THEN Xor(Xor(s1[0], k1[0]), Xor(s2[0], k2[0]))
                        ELSE Xor(k1[13], k2[13])
    BY DEF SBoxIn
  <2> HIDE DEF s1, s2, k1, k2
  <2> QED BY <2>2, <2>3, XorSwaps
<1> QED BY <1>5, <1>6, <1>7 DEF WholeState, WholeKey, out

\* The encryption of the block at hand.
LEMMA BlockIs ==
  ASSUME CoreInv, MaskedTyped, mbus # "idle" \/ mat # 1
  PROVE  /\ Standard(MaskedTexts(mblock), MaskedKeys(mblock))
         /\ MaskedTexts(mblock)[0] = Cells(MaskedBlocks[mblock].plain)
         /\ MaskedKeys(mblock)[0] = Cells(MaskedBlocks[mblock].key)
         /\ AddKey(MaskedTexts(mblock)[10], MaskedKeys(mblock)[10]) = Cells(MaskedBlocks[mblock].cipher)
<1> DEFINE plain == MaskedBlocks[mblock].plain
           key == MaskedBlocks[mblock].key
<1>1. mblock \in 1..Len(MaskedBlocks) /\ plain \in [1..16 -> Byte] /\ key \in [1..16 -> Byte]
  BY Shares
<1>2. Cells(MaskedBlocks[mblock].cipher) = Ciphertext(plain, key)
  <2>1. mblock \in DOMAIN MaskedBlocks
    BY <1>1, MaskedBlocksAssumption
  <2> QED BY <2>1, VectorsAssumption DEF IsAes
<1>3. MaskedKeys(mblock) = RoundKeys(key) /\ MaskedTexts(mblock) = Texts(plain, RoundKeys(key))
  BY DEF MaskedKeys, MaskedTexts
<1> HIDE DEF plain, key
<1>4. /\ Standard(Texts(plain, RoundKeys(key)), RoundKeys(key))
      /\ Texts(plain, RoundKeys(key))[0] = Cells(plain) /\ RoundKeys(key)[0] = Cells(key)
      /\ Ciphertext(plain, key) = AddKey(Texts(plain, RoundKeys(key))[10], RoundKeys(key)[10])
  BY <1>1, StandardIs
<1>5. /\ Standard(MaskedTexts(mblock), MaskedKeys(mblock))
      /\ MaskedTexts(mblock)[0] = Cells(plain) /\ MaskedKeys(mblock)[0] = Cells(key)
      /\ AddKey(MaskedTexts(mblock)[10], MaskedKeys(mblock)[10]) = Cells(MaskedBlocks[mblock].cipher)
  BY <1>2, <1>3, <1>4
<1> QED BY <1>5 DEF plain, key

\* A round begins with the text that the last one ended with.
LEMMA Begins ==
  ASSUME NEW texts, NEW keys, Standard(texts, keys), NEW r \in 1..11, NEW stages
  PROVE  /\ StateAt(r, 0, texts[r - 1], texts, keys)
         /\ StagesAt(0, stages, texts[r - 1], keys[r - 1])
<1> DEFINE text == texts[r - 1]
           out == Summed(r, texts[r - 1], keys[r - 1])
<1>1. text \in Text
  BY StandardRounds
<1>2. StagesAt(0, stages, texts[r - 1], keys[r - 1])
  <2>1. \A i \in 1..4 : ~((0 + i) - 5 \in 0..15) /\ ~((0 + i) - 5 \in 16..19)
    OBVIOUS
  <2> QED BY <2>1 DEF StagesAt
<1>3. CASE r = 11
  <2> HIDE DEF text, out
  <2>1. Moved(text, out, 0) = text
    BY <1>1, MovedEnds
  <2> QED BY <1>2, <1>3, <2>1 DEF StateAt, text, out
<1>4. CASE r # 11
  <2>1. Delayed(text, text, out, 0)
    <3>1. \A n \in Cell : n + 0 = n /\ ~(n + 0 >= 20)
      BY DEF Cell
    <3> QED BY <3>1 DEF Delayed
  <2> QED BY <1>2, <1>4, <2>1 DEF StateAt
<1> QED BY <1>3, <1>4

\* The ciphertext is what the last round leaves.
RoundsFinish ==
  mcore.fsm = "Round" /\ mcore'.fsm = "Done" => WholeState' = Cells(MaskedBlocks[mblock].cipher)

LEMMA RoundStep ==
  ASSUME CoreInv, Supplied, MaskedTyped, InRounds, MaskedNext, mcore.fsm = "Round"
  PROVE  InRounds' /\ RoundsFinish
<1> DEFINE texts == MaskedTexts(mblock)
           keys == MaskedKeys(mblock)
           r == mcore.round
           c == mcore.control
           out == SBox[mcore.stages[1]]
<1>1. CoreInv' /\ Cycle
  BY CoreInvStep
<1>2. mat = 20 /\ mblock' = mblock
  BY Working
<1>3. /\ Standard(texts, keys)
      /\ AddKey(texts[10], keys[10]) = Cells(MaskedBlocks[mblock].cipher)
  BY <1>2, BlockIs
<1>4. /\ r \in 1..11 /\ c \in 0..24 /\ (r = 11 => c < 16)
      /\ Moment(r, c) /\ Stands(mcore, r, c)
  <2>1. c \in IF r = 11 THEN 0..15 ELSE 0..24
    BY DEF Supplied
  <2>2. r \in 1..11
    BY DEF CoreInv, DriverOK
  <2>3. mcore.fsm = "Round" /\ mcore.round = r /\ mcore.control = c
    OBVIOUS
  <2> HIDE DEF r, c
  <2> QED BY <2>1, <2>2, <2>3 DEF Moment, Stands
<1>5. /\ StateAt(r, c, WholeState, texts, keys) /\ KeyAt(r, c, WholeKey, keys)
      /\ StagesAt(c, mcore.stages, texts[r - 1], keys[r - 1])
      /\ r < 11 => mcore.rcon = Rcon[r]
  BY DEF InRounds
<1>6. /\ WholeState' = StateShare(mcore, WholeState, WholeKey, out)
      /\ WholeKey' = KeyShare(mcore, WholeKey, Xor(out, RoundConstant))
      /\ SBoxIn(mcore) = IF c < 16 THEN Xor(WholeState[0], WholeKey[0]) ELSE WholeKey[13]
  BY SumStep
<1>7. PICK word : ShareCycle(Split(word))
  BY ShareStep DEF MaskedNext
<1>8. /\ mcore'.rcon = (IF c = 24 THEN Xtime(mcore.rcon) ELSE mcore.rcon)
      /\ mcore'.stages = Append(Tail(mcore.stages), SBoxIn(mcore))
  BY <1>7 DEF ShareCycle
<1>9. /\ r = 11 /\ c = 15 => mcore'.fsm = "Done"
      /\ ~(r = 11 /\ c = 15) =>
           /\ mcore'.fsm = "Round"
           /\ c = 24 => mcore'.control = 0 /\ mcore'.round = (r % 11) + 1
           /\ c # 24 => mcore'.control = c + 1 /\ mcore'.round = r
  BY <1>1 DEF Cycle, CoreCycle
<1>10. /\ c < 16 => WholeState[0] = texts[r - 1][c] /\ WholeKey[0] = keys[r - 1][c]
       /\ c \in 16..19 => WholeKey[13] = keys[r - 1][12 + ((c - 15) % 4)]
  <2> DEFINE state == WholeState  reg == WholeKey
  <2>1. StateAt(r, c, state, texts, keys) /\ KeyAt(r, c, reg, keys)
    BY <1>5
  <2> HIDE DEF texts, keys, r, c, state, reg
  <2>2. /\ c < 16 => state[0] = texts[r - 1][c] /\ reg[0] = keys[r - 1][c]
        /\ c \in 16..19 => reg[13] = keys[r - 1][LastByte(c)]
    <3>1. Moment(r, c)
      BY <1>4
    <3>2. StateAt(r, c, state, texts, keys) /\ KeyAt(r, c, reg, keys) /\ Standard(texts, keys)
      BY <1>3, <2>1
    <3> QED BY ONLY <3>1, <3>2, Inputs
  <2> QED BY <2>2 DEF state, reg, LastByte
<1>11. /\ r < 11 => IF c < 24 THEN StateAt(r, c + 1, WholeState', texts, keys) ELSE WholeState' = texts[r]
       /\ r = 11 => WholeState' = Moved(texts[10], Summed(11, texts[10], keys[10]), c + 1)
  <2> DEFINE state == WholeState  reg == WholeKey  stages == mcore.stages
             next == StateShare(mcore, state, reg, SBox[stages[1]])
  <2>1. /\ StateAt(r, c, state, texts, keys) /\ StagesAt(c, stages, texts[r - 1], keys[r - 1])
        /\ c < 16 => reg[0] = keys[r - 1][c]
    BY <1>5, <1>10
  <2>2. WholeState' = next
    BY <1>6
  <2> HIDE DEF texts, keys, r, c, out, state, reg, stages
  <2>3. /\ r < 11 => IF c < 24 THEN StateAt(r, c + 1, next, texts, keys) ELSE next = texts[r]
        /\ r = 11 => next = Moved(texts[10], Summed(11, texts[10], keys[10]), c + 1)
    BY <1>3, <1>4, <2>1, StateMoves
  <2> HIDE DEF next
  <2> QED BY <2>2, <2>3
<1>12. /\ c < 24 => KeyAt(r, c + 1, WholeKey', keys)
       /\ c = 24 => WholeKey' = Passing(keys[r - 1], keys[r], 0)
  <2> DEFINE reg == WholeKey  stages == mcore.stages  rc == RoundConstant
             next == KeyShare(mcore, reg, Xor(SBox[stages[1]], rc))
  <2>1. /\ KeyAt(r, c, reg, keys) /\ StagesAt(c, stages, texts[r - 1], keys[r - 1])
    BY <1>5
  <2>2. r < 11 => rc = IF c = 20 THEN Rcon[r] ELSE {}
    BY <1>5 DEF RoundConstant
  <2>3. WholeKey' = next
    BY <1>6
  <2> HIDE DEF texts, keys, r, c, out, reg, stages, rc
  <2>4. /\ c < 24 => KeyAt(r, c + 1, next, keys)
        /\ c = 24 => next = Passing(keys[r - 1], keys[r], 0)
    <3>1. Stands(mcore, r, c)
      BY <1>4
    <3>2. StagesAt(c, stages, texts[r - 1], keys[r - 1]) /\ KeyAt(r, c, reg, keys) /\ Standard(texts, keys)
      BY <1>3, <2>1
    <3> QED BY ONLY <2>2, <3>1, <3>2, KeyMoves
  <2> HIDE DEF next
  <2> QED BY <2>3, <2>4
<1>13. c < 24 => StagesAt(c + 1, mcore'.stages, texts[r - 1], keys[r - 1])
  <2> DEFINE stages == mcore.stages
             next == mcore'.stages
  <2>1. /\ \A i \in 1..3 : next[i] = stages[i + 1]
        /\ next[4] = SBoxIn(mcore)
    <3>1. stages \in Seq(Byte) /\ Len(stages) = 4
      BY DEF MaskedTyped
    <3>2. SBoxIn(mcore) \in Byte
      <4>1. /\ mcore.state1[0] \in Byte /\ mcore.state2[0] \in Byte /\ mcore.key1[0] \in Byte
            /\ mcore.key2[0] \in Byte /\ mcore.key1[13] \in Byte /\ mcore.key2[13] \in Byte
        BY DEF MaskedTyped, Text, Cell
      <4>2. /\ Xor(mcore.state1[0], mcore.key1[0]) \in Byte
            /\ Xor(mcore.state2[0], mcore.key2[0]) \in Byte
            /\ Xor(mcore.key1[13], mcore.key2[13]) \in Byte
        BY <4>1, XorTyped
      <4> QED BY <4>2, XorTyped DEF SBoxIn
    <3>3. next = Append(Tail(stages), SBoxIn(mcore))
      BY <1>8
    <3> HIDE DEF stages, next
    <3> QED BY <3>1, <3>2, <3>3, StageStep
  <2>2. /\ c < 16 => next[4] = Xor(texts[r - 1][c], keys[r - 1][c])
        /\ c \in 16..19 => next[4] = keys[r - 1][12 + ((c - 15) % 4)]
    <3> HIDE DEF texts, keys, r, c, next
    <3>1. c \in 16..19 => ~(c < 16)
      OBVIOUS
    <3> QED BY <1>6, <1>10, <2>1, <3>1
  <2> HIDE DEF texts, keys, r, c, stages, next
  <2>3. c < 24 => c \in 0..23
    BY <1>4
  <2>4. StagesAt(c, stages, texts[r - 1], keys[r - 1])
    BY <1>5 DEF stages
  <2>5. c < 24 => StagesAt(c + 1, next, texts[r - 1], keys[r - 1])
    BY <2>1, <2>2, <2>3, <2>4, StagesMove
  <2> QED BY <2>5 DEF next
<1>14. CASE r = 11 /\ c = 15
  <2>1. WholeState' = Moved(texts[10], Summed(11, texts[10], keys[10]), 16)
    BY <1>11, <1>14
  <2>2. texts[10] \in Text /\ keys[10] \in Text
    <3>1. 11 \in 1..11 /\ 11 - 1 = 10
      OBVIOUS
    <3> HIDE DEF texts, keys
    <3> QED BY <1>3, <3>1, StandardRounds
  <2>3. Summed(11, texts[10], keys[10]) \in Text /\ AddKey(texts[10], keys[10]) = Summed(11, texts[10], keys[10])
    <3> HIDE DEF texts, keys
    <3> QED BY <2>2, SummedTyped
  <2>4. WholeState' = AddKey(texts[10], keys[10])
    <3> HIDE DEF texts, keys
    <3> QED BY <2>1, <2>2, <2>3, MovedEnds
  <2>5. mcore'.fsm # "Round"
    BY <1>9, <1>14
  <2> QED BY <1>3, <2>4, <2>5 DEF InRounds, RoundsFinish
<1>15. CASE ~(r = 11 /\ c = 15) /\ c < 24
  <2>1. mcore'.fsm = "Round" /\ mcore'.control = c + 1 /\ mcore'.round = r
    BY <1>4, <1>9, <1>15
  <2>2. StateAt(r, c + 1, WholeState', texts, keys)
    <3>1. CASE r = 11
      <4>1. WholeState' = Moved(texts[r - 1], Summed(r, texts[r - 1], keys[r - 1]), c + 1)
        <5>1. r - 1 = 10
          BY <3>1
        <5> HIDE DEF texts, keys, r, c
        <5> QED BY <1>11, <3>1, <5>1
      <4> HIDE DEF texts, keys, r, c
      <4> QED BY <3>1, <4>1 DEF StateAt
    <3>2. CASE r # 11
      BY <1>4, <1>11, <1>15, <3>2
    <3> QED BY <3>1, <3>2
  <2>3. KeyAt(r, c + 1, WholeKey', keys) /\ StagesAt(c + 1, mcore'.stages, texts[r - 1], keys[r - 1])
    BY <1>12, <1>13, <1>15
  <2>4. r < 11 => mcore'.rcon = Rcon[r]
    BY <1>5, <1>8, <1>15
  <2>5. MaskedTexts(mblock)' = texts /\ MaskedKeys(mblock)' = keys
    BY <1>2 DEF MaskedTexts, MaskedKeys
  <2> HIDE DEF texts, keys, r, c
  <2>6. InRounds'
    BY <2>1, <2>2, <2>3, <2>4, <2>5 DEF InRounds
  <2> QED BY <2>1, <2>6 DEF RoundsFinish
<1>16. CASE c = 24
  <2>1. r \in 1..10 /\ (r % 11) + 1 = r + 1 /\ r + 1 \in 1..11 /\ (r + 1) - 1 = r /\ (r + 1) - 2 = r - 1
    BY <1>4, <1>16
  <2>2. mcore'.fsm = "Round" /\ mcore'.control = 0 /\ mcore'.round = r + 1
    BY <1>9, <1>16, <2>1
  <2>3. WholeState' = texts[r] /\ WholeKey' = Passing(keys[r - 1], keys[r], 0)
    BY <1>11, <1>12, <1>16, <2>1
  <2>4. r + 1 < 11 => mcore'.rcon = Rcon[r + 1]
    BY <1>5, <1>8, <1>16, <2>1, RconDoubles
  <2>5. MaskedTexts(mblock)' = texts /\ MaskedKeys(mblock)' = keys
    BY <1>2 DEF MaskedTexts, MaskedKeys
  <2> DEFINE q == r + 1
  <2>6. q \in 1..11 /\ q - 1 = r /\ q - 2 = r - 1 /\ q # 1
    BY <2>1
  <2> HIDE DEF texts, keys, r, c, q
  <2>7. StateAt(q, 0, WholeState', texts, keys) /\ StagesAt(0, mcore'.stages, texts[q - 1], keys[q - 1])
    <3>1. WholeState' = texts[q - 1]
      BY <2>3, <2>6
    <3> QED BY <1>3, <2>6, <3>1, Begins
  <2>8. KeyAt(q, 0, WholeKey', keys)
    BY <2>3, <2>6 DEF KeyAt
  <2>9. mcore'.round = q /\ (q < 11 => mcore'.rcon = Rcon[q])
    BY <2>2, <2>4 DEF q
  <2>10. InRounds'
    BY <2>2, <2>5, <2>7, <2>8, <2>9 DEF InRounds
  <2> QED BY <2>2, <2>10 DEF RoundsFinish
<1> QED BY <1>4, <1>14, <1>15, <1>16

\* The two shares loaded add up to the block.
LEMMA LoadedSum ==
  ASSUME NEW regs1, NEW regs2, NEW second \in [1..16 -> Byte], NEW bytes \in [1..16 -> Byte],
         Holds(regs1, regs2, Added(second, bytes), second, 8)
  PROVE  /\ Joined(regs1, regs2) = Cells(bytes)
         /\ \A n \in Cell : regs2[n] = second[n + 1]
<1>1. ASSUME NEW n \in Cell
      PROVE  Xor(regs1[n], regs2[n]) = bytes[n + 1] /\ regs2[n] = second[n + 1]
  <2>1. Col(n) < 8 /\ Col(n) + 4 < 8
    BY CellArith
  <2>2. n + 1 \in 1..16
    BY DEF Cell
  <2>3. regs1[n] = Added(second, bytes)[n + 1] /\ regs2[n] = second[n + 1]
    BY <2>1 DEF Holds
  <2>4. Added(second, bytes)[n + 1] = Xor(second[n + 1], bytes[n + 1])
    BY <2>2 DEF Added
  <2> DEFINE s == second[n + 1]  b == bytes[n + 1]
  <2>5. Xor(Xor(s, b), s) = b
    <3> HIDE DEF s, b
    <3>1. Xor(Xor(s, b), s) = Xor(s, Xor(s, b))
      BY XorGroup
    <3>2. Xor(s, Xor(s, b)) = Xor(Xor(s, s), b)
      BY XorGroup
    <3>3. Xor(s, s) = {} /\ Xor({}, b) = b
      BY XorGroup
    <3> QED BY <3>1, <3>2, <3>3
  <2> QED BY <2>3, <2>4, <2>5
<1>2. Cells(bytes) = [n \in Cell |-> bytes[n + 1]]
  BY DEF Cells
<1>3. Joined(regs1, regs2) = [n \in Cell |-> bytes[n + 1]]
  BY <1>1 DEF Joined
<1> QED BY <1>1, <1>2, <1>3

LEMMA RoundsKept ==
  ASSUME CoreInv, Supplied, MaskedTyped, Queues, InRounds, InLoading, MaskedNext
  PROVE  InRounds'
<1>1. CoreInv' /\ Cycle
  BY CoreInvStep
<1>2. CASE mcore.fsm = "Round"
  BY <1>2, RoundStep
<1>3. CASE mcore.fsm = "Init" /\ mcore.control = 7
  <2> DEFINE texts == MaskedTexts(mblock)
             keys == MaskedKeys(mblock)
             plain == MaskedBlocks[mblock].plain
             key == MaskedBlocks[mblock].key
  <2>1. /\ mat = 20 /\ mat' = 20 /\ mblock' = mblock /\ share' = share
        /\ mcore.round = 1
    BY <1>3, Working, LoadsInInit
  <2>2. mcore'.fsm = "Round" /\ mcore'.control = 0 /\ mcore'.round = 1
    BY <1>1, <1>3, <2>1 DEF Cycle, CoreCycle
  <2>3. Loaded(8)'
    BY <2>2, LoadingKept DEF InLoading
  <2>4. /\ share.key \in [1..16 -> Byte] /\ share.plain \in [1..16 -> Byte]
        /\ key \in [1..16 -> Byte] /\ plain \in [1..16 -> Byte]
    BY <2>1, Shares DEF MaskedTyped
  <2>5. First'.key = Added(share.key, key) /\ First'.plain = Added(share.plain, plain)
    BY <2>1 DEF First
  <2>6. /\ Holds(mcore'.state1, mcore'.state2, Added(share.plain, plain), share.plain, 8)
        /\ Holds(mcore'.key1, mcore'.key2, Added(share.key, key), share.key, 8)
    BY <2>1, <2>3, <2>5 DEF Loaded
  <2>7. WholeState' = Cells(plain) /\ WholeKey' = Cells(key)
    BY <2>4, <2>6, LoadedSum DEF WholeState, WholeKey
  <2>8. Standard(texts, keys) /\ texts[0] = Cells(plain) /\ keys[0] = Cells(key)
    BY <2>1, BlockIs
  <2>9. mcore'.rcon = Rcon[1]
    <3>1. PICK word : ShareCycle(Split(word))
      BY ShareStep DEF MaskedNext
    <3> QED BY <1>3, <3>1, RconDoubles DEF ShareCycle, MaskedTyped
  <2>10. MaskedTexts(mblock)' = texts /\ MaskedKeys(mblock)' = keys
    BY <2>1 DEF MaskedTexts, MaskedKeys
  <2> HIDE DEF texts, keys, plain, key
  <2> DEFINE r == 1
  <2>11. r \in 1..11 /\ r - 1 = 0
    OBVIOUS
  <2> HIDE DEF r
  <2>12. StateAt(r, 0, texts[r - 1], texts, keys) /\ StagesAt(0, mcore'.stages, texts[r - 1], keys[r - 1])
    BY <2>8, <2>11, Begins
  <2>13. KeyAt(r, 0, keys[r - 1], keys)
    <3>1. keys[r - 1] \in Text
      BY <2>8, <2>11, StandardRounds
    <3>2. Moved(keys[r - 1], keys[r - 1], 0) = keys[r - 1]
      BY <3>1, KeyEnds
    <3> QED BY <3>2 DEF KeyAt, r
  <2>14. WholeState' = texts[r - 1] /\ WholeKey' = keys[r - 1]
    BY <2>7, <2>8, <2>11
  <2>15. mcore'.round = r /\ mcore'.rcon = Rcon[r]
    BY <2>2, <2>9 DEF r
  <2> QED BY <2>2, <2>10, <2>12, <2>13, <2>14, <2>15 DEF InRounds
<1>4. CASE mcore.fsm # "Round" /\ ~(mcore.fsm = "Init" /\ mcore.control = 7)
  <2>1. mcore'.fsm # "Round"
    BY <1>1, <1>4 DEF Cycle, CoreCycle, CoreInv, DriverOK
  <2> QED BY <2>1 DEF InRounds
<1> QED BY <1>2, <1>3, <1>4

-----------------------------------------------------------------------------
(* The answer.                                                             *)

LEMMA Appended ==
  ASSUME NEW q, IsSequence(q), NEW word
  PROVE  LET next == Append(q, word)
         IN /\ IsSequence(next) /\ Len(next) = Len(q) + 1 /\ Len(q) \in Nat
            /\ DOMAIN next = 1..Len(q) + 1 /\ DOMAIN q = 1..Len(q)
            /\ next[Len(q) + 1] = word /\ \A i \in 1..Len(q) : next[i] = q[i]
<1>1. PICK S : q \in Seq(S)
  BY DEF IsSequence
<1> DEFINE T == S \cup {word}
<1>2. q \in Seq(T) /\ word \in T
  BY <1>1, SeqMonotonic
<1> HIDE DEF T
<1>3. Append(q, word) \in Seq(T) /\ Len(Append(q, word)) = Len(q) + 1 /\ Len(q) \in Nat
  BY <1>2, AppendProperties
<1>4. Append(q, word)[Len(q) + 1] = word /\ \A i \in 1..Len(q) : Append(q, word)[i] = q[i]
  BY <1>2, AppendProperties
<1>5. DOMAIN Append(q, word) = 1..Len(q) + 1 /\ DOMAIN q = 1..Len(q)
  BY <1>2, <1>3, LenProperties
<1> QED BY <1>3, <1>4, <1>5 DEF IsSequence

LEMMA FetchArith ==
  ASSUME NEW b \in Nat \ {0}, NEW k \in 0..7, NEW i, i = 8 * (b - 1) + 1 + k
  PROVE  /\ (i - 1) % 8 = k /\ (i - 1) \div 8 = b - 1
         /\ k >= 4 => (i - 1) % 4 = k - 4
<1>1. i - 1 = 8 * (b - 1) + k /\ i - 1 = 4 * (2 * (b - 1) + 1) + (k - 4)
  OBVIOUS
<1>2. b - 1 \in Nat /\ 2 * (b - 1) + 1 \in Nat
  OBVIOUS
<1>3. \A m \in Nat, x \in 0..7 : (8 * m + x) % 8 = x /\ (8 * m + x) \div 8 = m
  OBVIOUS
<1>4. \A m \in Nat, x \in 0..3 : (4 * m + x) % 4 = x
  OBVIOUS
<1>5. k >= 4 => k - 4 \in 0..3
  OBVIOUS
<1> QED BY <1>1, <1>2, <1>3, <1>4, <1>5

\* A word of the one share and that of the other add up to a word of the sum.
LEMMA FetchedSum ==
  ASSUME MaskedTyped, NEW cipher \in [1..16 -> Byte], WholeState = Cells(cipher), NEW k \in 0..3,
         NEW word, word = [i \in 1..4 |-> mcore.state2[(4 * k + i) - 1]]
  PROVE  Added(Share1Word(k), word) = Word(cipher, k + 1)
<1>1. ASSUME NEW j \in 1..4
      PROVE  Xor(mcore.state1[(4 * k + j) - 1], mcore.state2[(4 * k + j) - 1]) = cipher[4 * ((k + 1) - 1) + j]
  <2> DEFINE n == (4 * k + j) - 1
  <2>1. n \in Cell /\ n + 1 = 4 * ((k + 1) - 1) + j
    BY DEF Cell
  <2>2. Cells(cipher)[n] = cipher[n + 1]
    BY <2>1, CellsTyped
  <2>3. WholeState[n] = Xor(mcore.state1[n], mcore.state2[n])
    BY <2>1 DEF WholeState, Joined
  <2> HIDE DEF n
  <2>4. Xor(mcore.state1[n], mcore.state2[n]) = cipher[4 * ((k + 1) - 1) + j]
    BY <2>1, <2>2, <2>3
  <2> QED BY <2>4 DEF n
<1>2. DOMAIN Share1Word(k) = 1..4
  BY DEF Share1Word
<1>3. Added(Share1Word(k), word)
        = [j \in 1..4 |-> Xor(mcore.state1[(4 * k + j) - 1], mcore.state2[(4 * k + j) - 1])]
  BY <1>2 DEF Added, Share1Word
<1> QED BY <1>1, <1>3 DEF Word

\* The text stays in the registers until all of it has been fetched.
LEMMA TextKept ==
  ASSUME CoreInv, Supplied, MaskedTyped, InRounds, Answered, MaskedNext
  PROVE  /\ mcore'.fsm = "Done" /\ mat' # 1 => WholeState' = Cells(MaskedBlocks[mblock'].cipher)
         /\ mcore.fsm = "Done" => mcore'.state1 = mcore.state1 /\ mcore'.state2 = mcore.state2
<1>1. Cycle
  BY CoreInvStep
<1>2. CASE mcore.fsm \in {"Idle", "Init"}
  <2>1. mcore'.fsm # "Done"
    BY <1>1, <1>2 DEF Cycle, CoreCycle
  <2> QED BY <1>2, <2>1
<1>3. CASE mcore.fsm = "Round"
  <2>1. mblock' = mblock
    BY <1>3, Working
  <2>2. RoundsFinish
    BY <1>3, RoundStep
  <2> QED BY <1>3, <2>1, <2>2 DEF RoundsFinish
<1>4. CASE mcore.fsm = "Done"
  <2>1. PICK word : ShareCycle(Split(word))
    BY ShareStep DEF MaskedNext
  <2>2. mcore'.state1 = mcore.state1 /\ mcore'.state2 = mcore.state2
    BY <1>4, <2>1 DEF ShareCycle, Kept
  <2>3. WholeState' = WholeState
    BY <2>2 DEF WholeState
  <2>4. ASSUME mcore'.fsm = "Done", mat' # 1 PROVE mat # 1 /\ mblock' = mblock
    <3>1. mat # 1
      <4>1. mat = 1 => mcore.control = 8
        BY <1>4 DEF CoreInv, Filling
      <4>2. mcore.control = 8 => mcore'.fsm = "Idle"
        BY <1>1, <1>4 DEF Cycle, CoreCycle
      <4> QED BY <2>4, <4>1, <4>2
    <3>2. mblock' = mblock
      BY <2>4, Driven
    <3> QED BY <3>1, <3>2
  <2> QED BY <1>4, <2>2, <2>3, <2>4 DEF Answered
<1> QED BY <1>2, <1>3, <1>4 DEF CoreInv, DriverOK

\* An access that fetches a word.
LEMMA FetchStep ==
  ASSUME CoreInv, MaskedTyped, Answered, mat \in 21..28, NEW next,
         next = Append(mfetched, MaskedCipher(mcore))
  PROVE  /\ IsSequence(next) /\ Len(next) = 8 * (mblock - 1) + (mat - 20)
         /\ \A k \in 0..3 : k < mat - 20 => next[8 * (mblock - 1) + 1 + k] = Share1Word(k)
         /\ \A i \in DOMAIN next : (i - 1) % 8 >= 4 =>
              Added(next[i - 4], next[i]) =
                Word(MaskedBlocks[((i - 1) \div 8) + 1].cipher, ((i - 1) % 4) + 1)
<1> DEFINE word == MaskedCipher(mcore)
           c == mat - 21
           base == 8 * (mblock - 1)
           len == Len(mfetched)
<1>1. c \in 0..7 /\ mat - 20 = c + 1 /\ mcore.fsm = "Done" /\ mcore.control = c /\ mat # 1
  BY DEF CoreInv, Fetching
<1>2. mblock \in Nat \ {0} /\ base \in Nat
  BY DEF MaskedTyped
<1>3. /\ c < 4 => word = Share1Word(c)
      /\ ~(c < 4) => word = [i \in 1..4 |-> mcore.state2[(4 * (c - 4) + i) - 1]]
  <2>1. /\ mcore.control1 = (IF c < 4 THEN c ELSE 0) /\ mcore.control2 = (IF c \in 4..7 THEN c - 4 ELSE 0)
    BY <1>1 DEF MaskedTyped
  <2>2. /\ c < 4 => mcore.control1 = c
        /\ ~(c < 4) => mcore.control2 = c - 4
    BY <1>1, <2>1
  <2>3. word = IF mcore.control < 4 THEN [i \in 1..4 |-> mcore.state1[4 * mcore.control1 + i - 1]]
               ELSE [i \in 1..4 |-> mcore.state2[4 * mcore.control2 + i - 1]]
    BY DEF MaskedCipher
  <2> HIDE DEF c, word
  <2>4. CASE c < 4
    <3>1. word = [i \in 1..4 |-> mcore.state1[4 * c + i - 1]]
      BY <1>1, <2>2, <2>3, <2>4
    <3>2. \A i \in 1..4 : 4 * c + i - 1 = (4 * c + i) - 1
      BY <1>1
    <3> QED BY <2>4, <3>1, <3>2 DEF Share1Word
  <2>5. CASE ~(c < 4)
    <3>1. word = [i \in 1..4 |-> mcore.state2[4 * (c - 4) + i - 1]]
      BY <1>1, <2>2, <2>3, <2>5
    <3>2. \A i \in 1..4 : 4 * (c - 4) + i - 1 = (4 * (c - 4) + i) - 1
      BY <1>1
    <3> QED BY <2>5, <3>1, <3>2
  <2> QED BY <2>4, <2>5
<1>4. len = base + c /\ IsSequence(mfetched)
  BY <1>1 DEF Answered
<1>5. \A k \in 0..3 : k < c => mfetched[base + 1 + k] = Share1Word(k)
  BY DEF Answered
<1> HIDE DEF c, base, word
<1>6. /\ IsSequence(next) /\ Len(next) = len + 1 /\ DOMAIN next = 1..len + 1 /\ DOMAIN mfetched = 1..len
      /\ next[len + 1] = word /\ \A i \in 1..len : next[i] = mfetched[i]
  BY <1>4, Appended DEF word
<1> HIDE DEF len
<1>7. ASSUME NEW k \in 0..3, k < c + 1 PROVE next[base + 1 + k] = Share1Word(k)
  <2>1. CASE k < c
    <3>1. base + 1 + k \in 1..len
      BY <1>1, <1>2, <1>4, <2>1
    <3> QED BY <1>5, <1>6, <2>1, <3>1
  <2>2. CASE ~(k < c)
    <3>1. k = c /\ c < 4 /\ base + 1 + k = len + 1
      BY <1>1, <1>2, <1>4, <1>7, <2>2
    <3> QED BY <1>3, <1>6, <3>1
  <2> QED BY <2>1, <2>2
<1>8. ASSUME NEW i \in DOMAIN next, (i - 1) % 8 >= 4
      PROVE  Added(next[i - 4], next[i]) =
               Word(MaskedBlocks[((i - 1) \div 8) + 1].cipher, ((i - 1) % 4) + 1)
  <2>1. i \in 1..len + 1 /\ len \in Nat
    BY <1>1, <1>2, <1>4, <1>6
  <2>2. CASE i # len + 1
    <3>1. i \in 1..len /\ i - 4 \in 1..len
      BY <1>8, <2>1, <2>2
    <3>2. next[i] = mfetched[i] /\ next[i - 4] = mfetched[i - 4] /\ i \in DOMAIN mfetched
      BY <1>6, <3>1
    <3>3. Added(mfetched[i - 4], mfetched[i]) =
            Word(MaskedBlocks[((i - 1) \div 8) + 1].cipher, ((i - 1) % 4) + 1)
      BY <1>8, <3>2 DEF Answered, AnswersRecombine
    <3> QED BY <3>2, <3>3
  <2>3. CASE i = len + 1
    <3>1. i = 8 * (mblock - 1) + 1 + c
      BY <1>1, <1>2, <1>4, <2>3 DEF base
    <3>2. (i - 1) % 8 = c /\ (i - 1) \div 8 = mblock - 1 /\ (c >= 4 => (i - 1) % 4 = c - 4)
      BY <1>1, <1>2, <3>1, FetchArith
    <3>3. c >= 4 /\ ~(c < 4) /\ c - 4 \in 0..3 /\ c - 4 < c
      BY <1>1, <1>8, <3>2
    <3>4. i - 4 = base + 1 + (c - 4) /\ i - 4 \in 1..len
      BY <1>1, <1>2, <1>4, <2>3, <3>3
    <3>5. next[i - 4] = Share1Word(c - 4)
      BY <1>5, <1>6, <3>3, <3>4
    <3>6. next[i] = [j \in 1..4 |-> mcore.state2[(4 * (c - 4) + j) - 1]]
      BY <1>3, <1>6, <2>3, <3>3
    <3>7. WholeState = Cells(MaskedBlocks[mblock].cipher)
      BY <1>1 DEF Answered
    <3>8. MaskedBlocks[mblock].cipher \in [1..16 -> Byte]
      BY <1>1, Shares
    <3>9. Added(next[i - 4], next[i]) = Word(MaskedBlocks[mblock].cipher, (c - 4) + 1)
      BY <3>3, <3>5, <3>6, <3>7, <3>8, FetchedSum
    <3>10. ((i - 1) \div 8) + 1 = mblock /\ ((i - 1) % 4) + 1 = (c - 4) + 1
      BY <1>2, <3>2, <3>3
    <3> QED BY <3>9, <3>10
  <2> QED BY <2>2, <2>3
<1>9. Len(next) = base + (c + 1)
  BY <1>1, <1>2, <1>4, <1>6
<1> QED BY <1>1, <1>6, <1>7, <1>8, <1>9 DEF base

LEMMA AnsweredStep ==
  ASSUME CoreInv, Supplied, MaskedTyped, InRounds, Answered, MaskedNext
  PROVE  Answered'
<1> DEFINE base == 8 * (mblock - 1)
<1>1. CoreInv'
  BY CoreInvStep
<1>2. /\ mcore'.fsm = "Done" /\ mat' # 1 => WholeState' = Cells(MaskedBlocks[mblock'].cipher)
      /\ mcore.fsm = "Done" => \A k : Share1Word(k)' = Share1Word(k)
  BY TextKept DEF Share1Word
<1>3. mat \in 1..28 /\ mblock \in Nat \ {0} /\ base \in Nat
  BY DEF CoreInv, DriverOK, MaskedTyped
<1>4. mat \in 21..28 => mcore.fsm = "Done"
  BY DEF CoreInv, Fetching
<1>5. /\ IsSequence(mfetched) /\ AnswersRecombine
      /\ Len(mfetched) = base + (IF mat \in 21..28 THEN mat - 21 ELSE 0)
      /\ mat \in 21..28 => \A k \in 0..3 : k < mat - 21 => mfetched[base + 1 + k] = Share1Word(k)
  BY DEF Answered
<1>6. CASE mfetched' = mfetched /\ mblock' = mblock /\ (mat' = mat \/ (~(mat \in 21..28) /\ mat' \in 1..21))
  <2>1. IsSequence(mfetched)' /\ AnswersRecombine'
    BY <1>5, <1>6 DEF IsSequence, AnswersRecombine
  <2>2. Len(mfetched') = 8 * (mblock' - 1) + (IF mat' \in 21..28 THEN mat' - 21 ELSE 0)
    <3>1. (IF mat \in 21..28 THEN mat - 21 ELSE 0) = (IF mat' \in 21..28 THEN mat' - 21 ELSE 0)
      BY <1>6
    <3> QED BY <1>5, <1>6, <3>1
  <2>3. ASSUME mat' \in 21..28, NEW k \in 0..3, k < mat' - 21
        PROVE  mfetched'[8 * (mblock' - 1) + 1 + k] = Share1Word(k)'
    <3>1. mat' = mat
      <4> DEFINE n == mat'
      <4>1. n \in 21..28 /\ k < n - 21
        BY <2>3
      <4> HIDE DEF n
      <4>2. ~(n \in 1..21)
        BY <4>1
      <4> QED BY <1>6, <4>2 DEF n
    <3> QED BY <1>2, <1>4, <1>5, <1>6, <2>3, <3>1
  <2> QED BY <1>2, <2>1, <2>2, <2>3 DEF Answered
<1>7. CASE mat \in 21..28 /\ mfetched' = Append(mfetched, MaskedCipher(mcore))
           /\ (IF mat = 28 THEN mat' = 1 /\ mblock' = mblock + 1 ELSE mat' = mat + 1 /\ mblock' = mblock)
  <2> DEFINE next == mfetched'
  <2>1. /\ IsSequence(next) /\ Len(next) = base + (mat - 20)
        /\ \A k \in 0..3 : k < mat - 20 => next[base + 1 + k] = Share1Word(k)
        /\ \A i \in DOMAIN next : (i - 1) % 8 >= 4 =>
             Added(next[i - 4], next[i]) =
               Word(MaskedBlocks[((i - 1) \div 8) + 1].cipher, ((i - 1) % 4) + 1)
    BY <1>7, FetchStep
  <2>2. IsSequence(mfetched)' /\ AnswersRecombine'
    BY <2>1 DEF IsSequence, AnswersRecombine
  <2>3. Len(mfetched') = 8 * (mblock' - 1) + (IF mat' \in 21..28 THEN mat' - 21 ELSE 0)
    <3>1. CASE mat = 28
      <4>1. mat' = 1 /\ mblock' = mblock + 1
        BY <1>7, <3>1
      <4>2. Len(next) = 8 * (mblock - 1) + 8
        BY <2>1, <3>1
      <4>3. 8 * (mblock - 1) + 8 = 8 * ((mblock + 1) - 1) + 0
        BY <1>3
      <4>4. ~(mat' \in 21..28)
        BY <4>1
      <4> QED BY <4>1, <4>2, <4>3, <4>4
    <3>2. CASE mat # 28
      <4>1. mat' = mat + 1 /\ mblock' = mblock
        BY <1>7, <3>2
      <4>2. mat' \in 21..28 /\ mat' - 21 = mat - 20
        BY <1>7, <3>2, <4>1
      <4> QED BY <2>1, <4>1, <4>2
    <3> QED BY <3>1, <3>2
  <2>4. ASSUME mat' \in 21..28, NEW k \in 0..3, k < mat' - 21
        PROVE  mfetched'[8 * (mblock' - 1) + 1 + k] = Share1Word(k)'
    <3>1. mat' = mat + 1 /\ mblock' = mblock
      <4>1. mat' # 1
        BY <2>4
      <4> QED BY <1>7, <4>1
    <3>4. k < mat - 20
      <4>1. mat' - 21 = mat - 20
        BY <1>3, <3>1
      <4> QED BY <2>4, <4>1
    <3>2. Share1Word(k)' = Share1Word(k)
      BY <1>2, <1>4, <1>7
    <3>3. mfetched'[base + 1 + k] = Share1Word(k)
      BY <2>1, <3>4
    <3> QED BY <3>1, <3>2, <3>3
  <2> QED BY <1>2, <2>2, <2>3, <2>4 DEF Answered
<1>8. CASE ~MaskedAccess /\ UNCHANGED << mat, mblock, share, mfetched >>
  BY <1>6, <1>8
<1>9. CASE ~(~MaskedAccess /\ UNCHANGED << mat, mblock, share, mfetched >>)
  <2>1. /\ mblock' = (IF mat = 28 THEN mblock + 1 ELSE mblock)
        /\ mfetched' = (IF mat \in 21..28 THEN Append(mfetched, MaskedCipher(mcore)) ELSE mfetched)
        /\ mat \in 1..16 \cup 18..19 \cup 21..27 => mat' = mat + 1
        /\ mat = 17 => mat' \in {17, 18}
        /\ mat = 20 => mat' = IF mdone THEN 21 ELSE 20
        /\ mat = 28 => mat' = 1
    BY <1>9, Driven
  <2>2. CASE mat \in 21..28
    BY <1>7, <2>1, <2>2
  <2>3. CASE ~(mat \in 21..28)
    <3>1. mat \in 1..20 /\ mat' \in 1..21
      <4>1. mat = 17 => mat' \in 1..21
        BY <2>1
      <4>2. mat = 20 => mat' \in 1..21
        BY <2>1
      <4>3. mat \in 1..16 \cup 18..19 => mat' \in 1..21
        <5>1. mat \in 1..16 \/ mat \in 18..19 => mat' = mat + 1
          BY <2>1
        <5> QED BY <5>1
      <4> QED BY <1>3, <2>3, <4>1, <4>2, <4>3
    <3> QED BY <1>6, <2>1, <2>3, <3>1
  <2> QED BY <2>2, <2>3
<1> QED BY <1>8, <1>9

LEMMA AnswerInit == MaskedInit => AnswerInv
<1> SUFFICES ASSUME MaskedInit PROVE AnswerInv
  OBVIOUS
<1>1. /\ mcore = ResetCore /\ mat = 1 /\ mbus = "idle" /\ mblock = 1 /\ mfetched = << >>
      /\ share = [key |-> [i \in 1..16 |-> {}], plain |-> [i \in 1..16 |-> {}]]
      /\ mkeyFifo = << >> /\ mplainFifo = << >>
  BY DEF MaskedInit
<1>2. /\ mcore.fsm = "Idle" /\ mcore.rcon = {0} /\ mcore.stages = Start16
      /\ mcore.state1 = Zero /\ mcore.state2 = Zero /\ mcore.key1 = Zero /\ mcore.key2 = Zero
  BY <1>1 DEF ResetCore
<1>3. {} \in Byte /\ {0} \in Byte /\ Zero \in Text
  BY DEF Byte, Zero, Text
<1>4. Start16 \in Seq(Byte) /\ Len(Start16) = 4
  BY <1>3 DEF Start16
<1>5. share.key \in [1..16 -> Byte] /\ share.plain \in [1..16 -> Byte]
  BY <1>1, <1>3
<1>6. MaskedTyped
  BY <1>1, <1>2, <1>3, <1>4, <1>5 DEF MaskedTyped
<1>7. InRounds /\ InLoading
  BY <1>2 DEF InRounds, InLoading
<1>8. Queues
  BY <1>1 DEF Queues
<1>9. Answered
  <2>1. IsSequence(mfetched) /\ Len(mfetched) = 0 /\ DOMAIN mfetched = {}
    <3>1. << >> \in Seq(Byte)
      OBVIOUS
    <3> QED BY <1>1, <3>1 DEF IsSequence
  <2>2. AnswersRecombine
    BY <2>1 DEF AnswersRecombine
  <2> QED BY <1>1, <1>2, <2>1, <2>2 DEF Answered
<1> QED BY <1>6, <1>7, <1>8, <1>9, InitInv DEF AnswerInv

LEMMA AnswerStep == AnswerInv /\ [MaskedNext]_maskedVars => AnswerInv'
<1> SUFFICES ASSUME AnswerInv, [MaskedNext]_maskedVars PROVE AnswerInv'
  OBVIOUS
<1>1. MaskInv'
  BY MaskInvStep DEF AnswerInv
<1>2. CASE MaskedNext
  <2>1. CoreInv /\ Supplied /\ MaskedTyped /\ InRounds /\ Queues /\ InLoading /\ Answered
    BY DEF AnswerInv, MaskInv
  <2> QED BY <1>1, <1>2, <2>1, TypedStep, RoundsKept, QueuesStep, LoadingKept, AnsweredStep DEF AnswerInv
<1>3. CASE UNCHANGED maskedVars
  <2>1. UNCHANGED << mcore, mkeyFifo, mplainFifo, mblock, mat, mbus, share, mfetched >>
    BY <1>3 DEF maskedVars, maskedRegs, maskedDriver
  <2>2. MaskedTyped'
    BY <2>1 DEF AnswerInv, MaskedTyped
  <2>3. InRounds'
    BY <2>1 DEF AnswerInv, InRounds, WholeState, WholeKey, MaskedTexts, MaskedKeys
  <2>4. Queues'
    BY <2>1 DEF AnswerInv, Queues, First, LoadedWords
  <2>5. InLoading'
    BY <2>1 DEF AnswerInv, InLoading, Loaded, First
  <2>6. Answered'
    BY <2>1 DEF AnswerInv, Answered, WholeState, Share1Word, IsSequence, AnswersRecombine
  <2> QED BY <1>1, <2>2, <2>3, <2>4, <2>5, <2>6 DEF AnswerInv
<1> QED BY <1>2, <1>3

\* The shares of key and plaintext do not get into each other's registers, and the two
\* shares of an answer add up to the ciphertext of the block: for any blocks that AES
\* answers, any number of them, any random words and any delays of the CPU, the
\* comparison of main.c:182 succeeds.
THEOREM MaskedAnswers == JobsSpec => []MaskedAnswer
<1>1. AnswerInv => MaskedAnswer
  <2> SUFFICES ASSUME AnswerInv PROVE MaskedAnswer
    OBVIOUS
  <2>1. AnswersRecombine
    BY DEF AnswerInv, Answered
  <2>2. ASSUME mcore.fsm = "Round", mcore.round = 1, mcore.control = 0
        PROVE  /\ \A n \in Cell : mcore.state2[n] = share.plain[n + 1] /\ mcore.key2[n] = share.key[n + 1]
               /\ Added(mcore.state1, mcore.state2) = [n \in Cell |-> MaskedBlocks[mblock].plain[n + 1]]
               /\ Added(mcore.key1, mcore.key2) = [n \in Cell |-> MaskedBlocks[mblock].key[n + 1]]
    <3> DEFINE plain == MaskedBlocks[mblock].plain
               key == MaskedBlocks[mblock].key
    <3>1. CoreInv /\ MaskedTyped /\ Loaded(8)
      BY <2>2 DEF AnswerInv, MaskInv, InLoading
    <3>2. mat = 20
      BY <2>2, <3>1 DEF CoreInv, DriverOK, Filling, Fetching
    <3>3. /\ share.key \in [1..16 -> Byte] /\ share.plain \in [1..16 -> Byte]
          /\ key \in [1..16 -> Byte] /\ plain \in [1..16 -> Byte]
      BY <3>1, <3>2, Shares DEF MaskedTyped
    <3>4. First.key = Added(share.key, key) /\ First.plain = Added(share.plain, plain)
      BY <3>2 DEF First
    <3>5. /\ Holds(mcore.state1, mcore.state2, Added(share.plain, plain), share.plain, 8)
          /\ Holds(mcore.key1, mcore.key2, Added(share.key, key), share.key, 8)
      BY <3>1, <3>4 DEF Loaded
    <3>6. DOMAIN mcore.state1 = Cell /\ DOMAIN mcore.key1 = Cell
      BY <3>1 DEF MaskedTyped, Text
    <3>7. /\ Added(mcore.state1, mcore.state2) = Joined(mcore.state1, mcore.state2)
          /\ Added(mcore.key1, mcore.key2) = Joined(mcore.key1, mcore.key2)
      BY <3>6 DEF Added, Joined
    <3> HIDE DEF plain, key
    <3> DEFINE s1 == mcore.state1  s2 == mcore.state2  k1 == mcore.key1  k2 == mcore.key2
               p == share.plain  m == share.key
    <3>8. /\ p \in [1..16 -> Byte] /\ m \in [1..16 -> Byte]
          /\ Holds(s1, s2, Added(p, plain), p, 8) /\ Holds(k1, k2, Added(m, key), m, 8)
      BY <3>3, <3>5
    <3> HIDE DEF s1, s2, k1, k2, p, m
    <3>9. Joined(s1, s2) = Cells(plain) /\ \A n \in Cell : s2[n] = p[n + 1]
      BY <3>3, <3>8, LoadedSum
    <3>10. Joined(k1, k2) = Cells(key) /\ \A n \in Cell : k2[n] = m[n + 1]
      BY <3>3, <3>8, LoadedSum
    <3> QED BY <3>7, <3>9, <3>10 DEF Cells, plain, key, s1, s2, k1, k2, p, m
  <2> QED BY <2>1, <2>2 DEF MaskedAnswer, SharesApart
<1>2. JobsInit => MaskedInit
  BY DEF JobsInit
<1>3. [JobsNext]_bothVars => [MaskedNext]_maskedVars
  BY DEF JobsNext, bothVars, maskedVars
<1> QED
  BY <1>1, <1>2, <1>3, AnswerInit, AnswerStep, PTL DEF JobsSpec

=============================================================================
