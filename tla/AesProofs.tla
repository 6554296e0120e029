----------------------------- MODULE AesProofs -----------------------------
(***************************************************************************)
(* The driver and the peripheral never lose a word, a command or an answer:*)
(* for every sequence of blocks, and whatever the CPU's delays.            *)
(***************************************************************************)
EXTENDS MCAes, AesRounds

Words == [1..4 -> Byte]

\* The ranges the argument needs, and that the bus is quiet after the last block.
DriverOK ==
  /\ core.fsm \in {"Idle", "Init", "Round", "Done"} /\ core.control \in Nat
  /\ enable \in BOOLEAN /\ done \in BOOLEAN
  /\ keyFifo \in Seq(Words) /\ plainFifo \in Seq(Words)
  /\ block \in 1..Len(Blocks) + 1 /\ at \in 1..15
  /\ bus \in {"idle", "setup", "access"}
  /\ bus # "idle" => block <= Len(Blocks)

Queued(n, m) == Len(keyFifo) = n /\ Len(plainFifo) = m

\* Where the core is while the driver is at each of its accesses.
Filling ==
  /\ at \in 1..10 => core.fsm = "Idle" /\ ~enable
  /\ at \in 1..9 => Queued(at \div 2, (at - 1) \div 2)
  /\ at = 10 => Queued(4, 4) /\ 0 \in ctrl
Running ==
  at = 11 => \/ core.fsm = "Idle" /\ enable /\ Queued(4, 4) /\ bus # "access"
             \/ /\ core.fsm = "Init" /\ enable /\ ~done /\ core.control \in 0..3
                /\ Queued(4 - core.control, 4 - core.control)
             \/ core.fsm = "Round" /\ enable /\ ~done /\ Queued(0, 0)
             \/ /\ core.fsm = "Done" /\ core.control = 0 /\ Queued(0, 0)
                /\ enable => ~done
Fetching ==
  at \in 12..15 => /\ core.fsm = "Done" /\ core.control = at - 12
                   /\ ~enable /\ Queued(0, 0)

ProtocolInv == DriverOK /\ Filling /\ Running /\ Fetching

----------------------------------------------------------------------------
(* Words and queues.                                                       *)

\* The words the driver writes are words.
LEMMA WordsTyped ==
  ASSUME block \in 1..Len(Blocks), at \in 1..15
  PROVE  /\ at \in {1, 3, 5, 7} => KeyWord \in Words
         /\ at \in {2, 4, 6, 8} => PlainWord \in Words
<1> DEFINE R == [key : [1..16 -> Byte], plain : [1..16 -> Byte], cipher : [1..16 -> Byte]]
<1>0. Blocks[block] \in R
  <2>1. Blocks \in Seq(R)
    BY BlocksAssumption
  <2> HIDE DEF R
  <2> QED BY <2>1
<1>1. Blocks[block].key \in [1..16 -> Byte] /\ Blocks[block].plain \in [1..16 -> Byte]
  BY <1>0
<1>2. ASSUME NEW bytes \in [1..16 -> Byte], NEW i \in 1..4 PROVE Word(bytes, i) \in Words
  BY <1>2 DEF Word, Words
<1>3. /\ at \in {1, 3, 5, 7} => (at + 1) \div 2 \in 1..4
      /\ at \in {2, 4, 6, 8} => at \div 2 \in 1..4
  OBVIOUS
<1> QED BY <1>1, <1>2, <1>3 DEF KeyWord, PlainWord

\* A cycle of a queue: it gains the pushed word unless it is full, and loses its
\* head unless it is empty.
LEMMA FifoStep ==
  ASSUME NEW q \in Seq(Words), NEW push \in BOOLEAN, NEW pop \in BOOLEAN,
         NEW word, push => word \in Words
  PROVE  /\ FifoNext(q, push, word, pop) \in Seq(Words)
         /\ Len(FifoNext(q, push, word, pop)) =
              Len(q) - (IF pop /\ Len(q) > 0 THEN 1 ELSE 0)
                     + (IF push /\ Len(q) < Depth THEN 1 ELSE 0)
<1> DEFINE rest == Tail(q)
           kept == IF pop /\ q # << >> THEN rest ELSE q
           new == Pushed(q, push, word)
<1>1. q # << >> => rest \in Seq(Words) /\ Len(rest) = Len(q) - 1
  OBVIOUS
<1>2. Len(q) \in Nat /\ (q = << >> <=> Len(q) = 0)
  OBVIOUS
<1> HIDE DEF rest
<1>3. kept \in Seq(Words) /\ Len(kept) = Len(q) - (IF pop /\ Len(q) > 0 THEN 1 ELSE 0)
  <2>1. CASE pop /\ q # << >>
    <3>1. kept = rest /\ pop /\ Len(q) > 0
      BY <1>2, <2>1
    <3> HIDE DEF kept
    <3> QED BY <1>1, <1>2, <2>1, <3>1
  <2>2. CASE ~(pop /\ q # << >>)
    <3>1. kept = q
      BY <2>2
    <3>2. ~(pop /\ Len(q) > 0)
      BY <1>2, <2>2
    <3> HIDE DEF kept
    <3> QED BY <1>2, <3>1, <3>2
  <2> QED BY <2>1, <2>2
<1>4. new \in Seq(Words) /\ Len(new) = IF push /\ Len(q) < Depth THEN 1 ELSE 0
  <2> HIDE DEF Words
  <2>1. CASE push /\ Len(q) < Depth
    <3>1. new = << word >> /\ word \in Words
      BY <2>1 DEF Pushed
    <3> HIDE DEF new
    <3>2. << word >> \in Seq(Words) /\ Len(<< word >>) = 1
      BY <3>1
    <3> QED BY <2>1, <3>1, <3>2
  <2>2. CASE ~(push /\ Len(q) < Depth)
    <3>1. new = << >>
      BY <2>2 DEF Pushed
    <3> HIDE DEF new
    <3> QED BY <2>2, <3>1
  <2> QED BY <2>1, <2>2
<1>5. FifoNext(q, push, word, pop) = kept \o new
  BY DEF FifoNext, rest
<1> HIDE DEF kept, new
<1>6. kept \o new \in Seq(Words) /\ Len(kept \o new) = Len(kept) + Len(new)
  <2>1. kept \in Seq(Words) /\ new \in Seq(Words)
    BY <1>3, <1>4
  <2> QED BY <2>1
<1> QED BY <1>3, <1>4, <1>5, <1>6

----------------------------------------------------------------------------
(* The invariant.                                                          *)

LEMMA InitInv == Init => ProtocolInv
<1> SUFFICES ASSUME Init PROVE ProtocolInv
  OBVIOUS
<1>1. Len(Blocks) \in Nat
  BY BlocksAssumption
<1>2. DriverOK
  <2>1. << >> \in Seq(Words)
    OBVIOUS
  <2>2. core.fsm = "Idle" /\ core.control = 0
    BY DEF Init, Reset
  <2>3. enable \in BOOLEAN /\ done \in BOOLEAN
    BY DEF Init
  <2>4. block = 1 /\ at = 1 /\ bus = "idle" /\ keyFifo = << >> /\ plainFifo = << >>
    BY DEF Init
  <2> QED BY <1>1, <2>1, <2>2, <2>3, <2>4 DEF DriverOK
<1>3. Filling /\ Running /\ Fetching
  BY DEF Init, Filling, Running, Fetching, Queued, Reset
<1> QED BY <1>2, <1>3 DEF ProtocolInv

\* What a cycle does to the part of the peripheral the invariant is about.
Cycle ==
  /\ core.fsm = "Idle" => core'.fsm = (IF enable THEN "Init" ELSE "Idle") /\ core'.control = 0
  /\ core.fsm = "Init" => IF core.control = 3 THEN core'.fsm = "Round" /\ core'.control = 0
                          ELSE core'.fsm = "Init" /\ core'.control = core.control + 1
  /\ core.fsm = "Round" => \/ core'.fsm = "Round" /\ core'.control \in Nat
                           \/ core'.fsm = "Done" /\ core'.control = 0
  /\ core.fsm = "Done" =>
       /\ core'.fsm = (IF ReadsCipher /\ core.control = 3 THEN "Idle" ELSE "Done")
       /\ core'.control = IF ReadsCipher THEN core.control + 1 ELSE core.control
  /\ WritesCtrl => (enable' <=> 0 \in ctrl)
  /\ ~WritesCtrl => (enable' <=> enable /\ core.fsm # "Done")
  /\ done' <=> (~enable /\ done) \/ core.fsm = "Done"
  /\ enable' \in BOOLEAN /\ done' \in BOOLEAN
  /\ keyFifo' \in Seq(Words) /\ plainFifo' \in Seq(Words)
  /\ Len(keyFifo') = Len(keyFifo) - (IF core.fsm = "Init" /\ Len(keyFifo) > 0 THEN 1 ELSE 0)
                       + (IF WritesKey /\ Len(keyFifo) < 4 THEN 1 ELSE 0)
  /\ Len(plainFifo') = Len(plainFifo) - (IF core.fsm = "Init" /\ Len(plainFifo) > 0 THEN 1 ELSE 0)
                         + (IF WritesPlain /\ Len(plainFifo) < 4 THEN 1 ELSE 0)

LEMMA CycleStep == DriverOK /\ PeripheralNext => Cycle
<1> SUFFICES ASSUME DriverOK, PeripheralNext PROVE Cycle
  OBVIOUS
<1> DEFINE fire == ReadsCipher /\ core.fsm = "Done"
<1>0. core'.fsm = FsmNext(core, CoreEnable, fire) /\ core'.control = ControlNext(core, fire)
  BY DEF PeripheralNext, CoreNext, Done
<1>1. /\ core.fsm = "Idle" => core'.fsm = (IF enable THEN "Init" ELSE "Idle") /\ core'.control = 0
      /\ core.fsm = "Init" => IF core.control = 3 THEN core'.fsm = "Round" /\ core'.control = 0
                              ELSE core'.fsm = "Init" /\ core'.control = core.control + 1
      /\ core.fsm = "Round" => \/ core'.fsm = "Round" /\ core'.control \in Nat
                               \/ core'.fsm = "Done" /\ core'.control = 0
      /\ core.fsm = "Done" =>
           /\ core'.fsm = (IF ReadsCipher /\ core.control = 3 THEN "Idle" ELSE "Done")
           /\ core'.control = IF ReadsCipher THEN core.control + 1 ELSE core.control
  <2>1. CASE core.fsm = "Idle"
    BY <1>0, <2>1 DEF FsmNext, ControlNext, CoreEnable, Done
  <2>2. CASE core.fsm = "Init"
    BY <1>0, <2>2 DEF FsmNext, ControlNext, LoadEnds, ControlOverflows
  <2>3. CASE core.fsm = "Round"
    <3>1. core'.fsm = IF RoundsEnd(core) THEN "Done" ELSE "Round"
      BY <1>0, <2>3 DEF FsmNext
    <3>2. RoundsEnd(core) => core'.control = 0
      BY <1>0, <2>3 DEF ControlNext
    <3>3. core'.control \in Nat
      BY <1>0, <2>3 DEF ControlNext, DriverOK
    <3> QED BY <2>3, <3>1, <3>2, <3>3
  <2>4. CASE core.fsm = "Done"
    BY <1>0, <2>4 DEF FsmNext, ControlNext, UnloadEnds, ControlOverflows
  <2> QED BY <2>1, <2>2, <2>3, <2>4 DEF DriverOK
<1>2. /\ WritesCtrl => (enable' <=> 0 \in ctrl)
      /\ ~WritesCtrl => (enable' <=> enable /\ core.fsm # "Done")
      /\ done' <=> (~enable /\ done) \/ core.fsm = "Done"
      /\ enable' \in BOOLEAN /\ done' \in BOOLEAN
  <2>1. enable' = (\/ WritesCtrl /\ 0 \in ctrl
                   \/ ~WritesCtrl /\ enable /\ core.fsm # "Done")
    BY DEF PeripheralNext, EnableNext, Done
  <2>2. done' = (~(enable /\ core.fsm # "Done") /\ (core.fsm = "Done" \/ done))
    BY DEF PeripheralNext, DoneNext, CoreEnable, Done
  <2>3. WritesCtrl => (enable' <=> 0 \in ctrl) /\ enable' \in BOOLEAN
    BY <2>1
  <2>4. ~WritesCtrl => (enable' <=> enable /\ core.fsm # "Done") /\ enable' \in BOOLEAN
    BY <2>1
  <2>5. (done' <=> (~enable /\ done) \/ core.fsm = "Done") /\ done' \in BOOLEAN
    BY <2>2
  <2> QED BY <2>3, <2>4, <2>5
<1>3. /\ WritesKey \in BOOLEAN /\ WritesPlain \in BOOLEAN /\ Loading(core) \in BOOLEAN
      /\ WritesKey => KeyWord \in Words
      /\ WritesPlain => PlainWord \in Words
  BY WordsTyped, BlocksAssumption DEF DriverOK, WritesKey, WritesPlain, Access, Loading
<1>4. /\ keyFifo' \in Seq(Words)
      /\ Len(keyFifo') = Len(keyFifo) - (IF core.fsm = "Init" /\ Len(keyFifo) > 0 THEN 1 ELSE 0)
                           + (IF WritesKey /\ Len(keyFifo) < 4 THEN 1 ELSE 0)
  <2>1. keyFifo \in Seq(Words)
    BY DEF DriverOK
  <2> DEFINE next == FifoNext(keyFifo, WritesKey, KeyWord, Loading(core))
  <2>2. /\ next \in Seq(Words)
        /\ Len(next) = Len(keyFifo) - (IF Loading(core) /\ Len(keyFifo) > 0 THEN 1 ELSE 0)
                       + (IF WritesKey /\ Len(keyFifo) < Depth THEN 1 ELSE 0)
    BY <1>3, <2>1, FifoStep
  <2>3. keyFifo' = next
    BY DEF PeripheralNext
  <2> HIDE DEF next
  <2> QED BY <2>2, <2>3 DEF Depth, Loading
<1>5. /\ plainFifo' \in Seq(Words)
      /\ Len(plainFifo') = Len(plainFifo) - (IF core.fsm = "Init" /\ Len(plainFifo) > 0 THEN 1 ELSE 0)
                           + (IF WritesPlain /\ Len(plainFifo) < 4 THEN 1 ELSE 0)
  <2>1. plainFifo \in Seq(Words)
    BY DEF DriverOK
  <2> DEFINE next == FifoNext(plainFifo, WritesPlain, PlainWord, Loading(core))
  <2>2. /\ next \in Seq(Words)
        /\ Len(next) = Len(plainFifo) - (IF Loading(core) /\ Len(plainFifo) > 0 THEN 1 ELSE 0)
                       + (IF WritesPlain /\ Len(plainFifo) < Depth THEN 1 ELSE 0)
    BY <1>3, <2>1, FifoStep
  <2>3. plainFifo' = next
    BY DEF PeripheralNext
  <2> HIDE DEF next
  <2> QED BY <2>2, <2>3 DEF Depth, Loading
<1> QED BY <1>1, <1>2, <1>4, <1>5 DEF Cycle

\* The ranges are kept.
LEMMA DriverStep == ProtocolInv /\ [Next]_vars => DriverOK'
<1> SUFFICES ASSUME ProtocolInv, [Next]_vars PROVE DriverOK'
  OBVIOUS
<1> USE DEF ProtocolInv
<1>1. CASE UNCHANGED vars
  BY <1>1 DEF vars, regs, driver, DriverOK
<1>2. CASE Next
  <2>1. Cycle
    BY <1>2, CycleStep DEF Next
  <2>2. /\ core'.fsm \in {"Idle", "Init", "Round", "Done"} /\ core'.control \in Nat
        /\ enable' \in BOOLEAN /\ done' \in BOOLEAN
        /\ keyFifo' \in Seq(Words) /\ plainFifo' \in Seq(Words)
    BY <2>1 DEF Cycle, DriverOK
  <2>3. Len(Blocks) \in Nat
    BY BlocksAssumption
  <2>4. /\ block' \in 1..Len(Blocks) + 1 /\ at' \in 1..15
        /\ bus' \in {"idle", "setup", "access"}
        /\ bus' # "idle" => block' <= Len(Blocks)
    <3>1. CASE Wait
      BY <3>1 DEF Wait, driver, DriverOK
    <3>2. CASE Start
      BY <3>2 DEF Start, DriverOK
    <3>3. CASE Setup
      BY <3>3 DEF Setup, DriverOK
    <3>4. CASE Transfer
      BY <3>4, <2>3 DEF Transfer, Complete, Access, DriverOK
    <3> QED BY <1>2, <3>1, <3>2, <3>3, <3>4 DEF Next
  <2> QED BY <2>2, <2>4 DEF DriverOK
<1> QED BY <1>1, <1>2

\* A cycle without an access leaves the driver where it is: only the core moves.
LEMMA QuietStep ==
  ASSUME ProtocolInv, Cycle, Wait \/ Start \/ Setup
  PROVE  Filling' /\ Running' /\ Fetching'
<1>1. at' = at /\ ctrl' = ctrl /\ ~Access
  BY DEF Wait, Start, Setup, driver, Access
<1>2. ~WritesKey /\ ~WritesPlain /\ ~WritesCtrl /\ ~ReadsCipher
  BY <1>1 DEF WritesKey, WritesPlain, WritesCtrl, ReadsCipher
<1> USE DEF ProtocolInv
<1>3. Filling'
  BY <1>1, <1>2 DEF Filling, Queued, Cycle, DriverOK
<1>4. CASE at # 11
  BY <1>1, <1>2, <1>3, <1>4 DEF Fetching, Running, Queued, Cycle, DriverOK
<1>5. CASE at = 11
  <2>1. Fetching'
    BY <1>1, <1>5 DEF Fetching
  <2>2. Running'
    <3>1. CASE core.fsm = "Idle"
      <4>1. enable /\ Queued(4, 4)
        BY <1>5, <3>1 DEF Running
      <4>2. core'.fsm = "Init" /\ core'.control = 0 /\ enable' /\ ~done'
        BY <1>2, <3>1, <4>1 DEF Cycle
      <4>3. Len(keyFifo') = 4 /\ Len(plainFifo') = 4
        BY <1>2, <3>1, <4>1 DEF Cycle, Queued
      <4> QED BY <4>2, <4>3 DEF Running, Queued
    <3>2. CASE core.fsm = "Init"
      <4>1. /\ enable /\ ~done /\ core.control \in 0..3
            /\ Queued(4 - core.control, 4 - core.control)
        BY <1>5, <3>2 DEF Running
      <4>2. enable' /\ ~done'
        BY <1>2, <3>2, <4>1 DEF Cycle
      <4>3. IF core.control = 3 THEN core'.fsm = "Round" /\ core'.control = 0
            ELSE core'.fsm = "Init" /\ core'.control = core.control + 1
        BY <3>2 DEF Cycle
      <4>4. Len(keyFifo') = 3 - core.control /\ Len(plainFifo') = 3 - core.control
        BY <1>2, <3>2, <4>1 DEF Cycle, Queued
      <4> QED BY <4>1, <4>2, <4>3, <4>4 DEF Running, Queued
    <3>3. CASE core.fsm = "Round"
      BY <1>1, <1>2, <1>5, <3>3 DEF Running, Queued, Cycle, DriverOK
    <3>4. CASE core.fsm = "Done"
      BY <1>1, <1>2, <1>5, <3>4 DEF Running, Queued, Cycle, DriverOK
    <3> QED BY <3>1, <3>2, <3>3, <3>4 DEF DriverOK
  <2> QED BY <1>3, <2>1, <2>2
<1> QED BY <1>3, <1>4, <1>5

\* An access moves the driver on, except a poll that reads 0.
LEMMA AccessStep ==
  ASSUME ProtocolInv, Cycle, Transfer
  PROVE  Filling' /\ Running' /\ Fetching'
<1> USE DEF ProtocolInv
<1>1. Access /\ Complete /\ bus' # "access"
  BY DEF Transfer
<1>2. CASE at \in 1..10
  <2>1. core.fsm = "Idle" /\ ~enable /\ ~ReadsCipher /\ ~ReadsStatus
    BY <1>2 DEF Filling, ReadsCipher, ReadsStatus
  <2>2. at' = at + 1
    BY <1>1, <1>2, <2>1 DEF Complete
  <2>3. core'.fsm = "Idle" /\ (enable' <=> at = 10 /\ 0 \in ctrl)
    BY <1>1, <1>2, <2>1 DEF Cycle, WritesCtrl
  <2>4. CASE at \in 1..8
    <3>1. Len(keyFifo) = at \div 2 /\ Len(plainFifo) = (at - 1) \div 2
      BY <2>4 DEF Filling, Queued
    <3>2. (WritesKey <=> at \in {1, 3, 5, 7}) /\ (WritesPlain <=> at \in {2, 4, 6, 8})
      BY <1>1 DEF WritesKey, WritesPlain
    <3>3. Len(keyFifo') = (at + 1) \div 2 /\ Len(plainFifo') = at \div 2
      BY <2>1, <2>4, <3>1, <3>2 DEF Cycle
    <3> QED BY <2>2, <2>3, <2>4, <3>3 DEF Filling, Running, Fetching, Queued
  <2>5. CASE at \in 9..10
    <3>1. Len(keyFifo) = 4 /\ Len(plainFifo) = 4
      <4>1. CASE at = 9
        <5>1. Len(keyFifo) = 9 \div 2 /\ Len(plainFifo) = 8 \div 2
          BY <4>1 DEF Filling, Queued
        <5> QED BY <5>1
      <4>2. CASE at = 10
        BY <4>2 DEF Filling, Queued
      <4> QED BY <2>5, <4>1, <4>2
    <3>2. ~WritesKey /\ ~WritesPlain
      BY <2>5 DEF WritesKey, WritesPlain
    <3>3. Len(keyFifo') = 4 /\ Len(plainFifo') = 4
      BY <2>1, <3>1, <3>2 DEF Cycle
    <3>4. CASE at = 9
      <4>1. 0 \in ctrl'
        BY <1>1, <3>4 DEF Complete, ReadsCtrl, CtrlValue
      <4> QED BY <2>2, <2>3, <3>3, <3>4, <4>1 DEF Filling, Running, Fetching, Queued
    <3>5. CASE at = 10
      <4>1. enable'
        BY <2>3, <3>5 DEF Filling
      <4> QED BY <1>1, <2>2, <2>3, <3>3, <3>5, <4>1 DEF Filling, Running, Fetching, Queued
    <3> QED BY <2>5, <3>4, <3>5
  <2> QED BY <1>2, <2>4, <2>5
<1>3. CASE at = 11
  <2>1. ~WritesKey /\ ~WritesPlain /\ ~WritesCtrl /\ ~ReadsCipher
    BY <1>3 DEF WritesKey, WritesPlain, WritesCtrl, ReadsCipher
  <2>2. at' = IF done THEN 12 ELSE 11
    BY <1>1, <1>3 DEF Complete, ReadsStatus, DriverOK
  <2>3. Filling'
    BY <2>2 DEF Filling
  <2>4. CASE core.fsm = "Init"
    <3>1. /\ enable /\ ~done /\ core.control \in 0..3
          /\ Queued(4 - core.control, 4 - core.control)
      BY <1>3, <2>4 DEF Running
    <3>2. enable' /\ ~done' /\ at' = 11
      BY <2>1, <2>2, <2>4, <3>1 DEF Cycle
    <3>3. IF core.control = 3 THEN core'.fsm = "Round" /\ core'.control = 0
          ELSE core'.fsm = "Init" /\ core'.control = core.control + 1
      BY <2>4 DEF Cycle
    <3>4. Len(keyFifo') = 3 - core.control /\ Len(plainFifo') = 3 - core.control
      BY <2>1, <2>4, <3>1 DEF Cycle, Queued
    <3>5. Running'
      BY <3>1, <3>2, <3>3, <3>4 DEF Running, Queued
    <3> QED BY <2>3, <3>2, <3>5 DEF Fetching
  <2>5. CASE core.fsm = "Round"
    <3>1. enable /\ ~done /\ Queued(0, 0)
      BY <1>3, <2>5 DEF Running
    <3>2. enable' /\ ~done' /\ at' = 11
      BY <2>1, <2>2, <2>5, <3>1 DEF Cycle
    <3>3. Len(keyFifo') = 0 /\ Len(plainFifo') = 0
      BY <2>1, <2>5, <3>1 DEF Cycle, Queued
    <3>4. \/ core'.fsm = "Round"
          \/ core'.fsm = "Done" /\ core'.control = 0
      BY <2>5 DEF Cycle
    <3>5. Running'
      BY <3>2, <3>3, <3>4 DEF Running, Queued
    <3> QED BY <2>3, <3>2, <3>5 DEF Fetching
  <2>6. CASE core.fsm = "Done"
    <3>1. core.control = 0 /\ Queued(0, 0) /\ (enable => ~done)
      BY <1>3, <2>6 DEF Running
    <3>2. core'.fsm = "Done" /\ core'.control = 0 /\ ~enable'
      BY <2>1, <2>6, <3>1 DEF Cycle
    <3>3. Len(keyFifo') = 0 /\ Len(plainFifo') = 0
      BY <2>1, <2>6, <3>1 DEF Cycle, Queued
    <3> QED BY <2>2, <2>3, <3>2, <3>3 DEF Running, Fetching, Queued
  <2> QED BY <1>1, <1>3, <2>4, <2>5, <2>6 DEF Running, Access
<1>4. CASE at \in 12..15
  <2>1. ReadsCipher /\ ~WritesKey /\ ~WritesPlain /\ ~WritesCtrl
    BY <1>1, <1>4 DEF ReadsCipher, WritesKey, WritesPlain, WritesCtrl
  <2>2. at' = IF at = 15 THEN 1 ELSE at + 1
    BY <1>1, <1>4 DEF Complete, ReadsStatus
  <2>3. /\ core'.fsm = (IF at = 15 THEN "Idle" ELSE "Done")
        /\ core'.control = core.control + 1
        /\ ~enable'
        /\ Len(keyFifo') = 0 /\ Len(plainFifo') = 0
    BY <1>4, <2>1 DEF Fetching, Queued, Cycle, DriverOK
  <2> QED BY <1>4, <2>2, <2>3 DEF Filling, Running, Fetching, Queued, DriverOK
<1> QED BY <1>2, <1>3, <1>4 DEF DriverOK

LEMMA NextInv == ProtocolInv /\ [Next]_vars => ProtocolInv'
<1> SUFFICES ASSUME ProtocolInv, [Next]_vars PROVE ProtocolInv'
  OBVIOUS
<1>1. DriverOK'
  BY DriverStep
<1>2. CASE UNCHANGED vars
  BY <1>1, <1>2 DEF ProtocolInv, vars, regs, driver, Filling, Running, Fetching, Queued
<1>3. CASE Next
  <2>1. Cycle
    BY <1>3, CycleStep DEF Next, ProtocolInv
  <2> QED BY <1>1, <1>3, <2>1, QuietStep, AccessStep DEF Next, ProtocolInv
<1> QED BY <1>2, <1>3

\* The queues, the status flag and the handshakes of AESBlackbox.scala fit the
\* driver aes.h: for any blocks and any delays of the CPU, the core finds its words
\* when it takes them without looking, a poll never sees the previous block's flag,
\* no command is given to a busy core and no answer is read too early.
THEOREM ProtocolCorrect == Spec => [](LoadsWholeBlock /\ HandshakeKept)
<1>1. ProtocolInv => LoadsWholeBlock
  BY DEF ProtocolInv, DriverOK, Filling, Running, Fetching, Queued, LoadsWholeBlock, Depth
<1>2. ProtocolInv => (ReadsStatus /\ done => Done(core) /\ core.control = 0)
  BY DEF ProtocolInv, Running, ReadsStatus, Access, Done
<1>3. ProtocolInv => HandshakeKept
  BY <1>2 DEF ProtocolInv, DriverOK, Filling, Running, Fetching, HandshakeKept, ReadsCipher,
         WritesCtrl, Access, Done
<1> QED BY <1>1, <1>3, InitInv, NextInv, PTL DEF Spec

\* The half of it that the firmware sees: the flag it polls is that of the command
\* just given, and what it fetches then is the answer to it.
THEOREM HandshakesKept == Spec => []HandshakeKept
<1>1. Spec => [](LoadsWholeBlock /\ HandshakeKept)
  BY ProtocolCorrect
<1> QED BY <1>1, PTL

----------------------------------------------------------------------------
(* The register files hold bytes.                                          *)

Registers == [Cell -> Byte]

\* Every move of a register file yields bytes.
LEMMA MovesTyped ==
  ASSUME NEW reg \in Registers, NEW word \in Words, NEW last \in Byte, NEW mix \in BOOLEAN
  PROVE  /\ Load(reg, word) \in Registers /\ Shift(reg, last) \in Registers
         /\ RotateColumns(reg) \in Registers /\ ShiftRows(reg) \in Registers
         /\ MixColumn(reg, mix) \in Registers
<1>1. ASSUME NEW n \in Cell PROVE reg[n] \in Byte
  BY <1>1 DEF Registers
<1>2. Load(reg, word) \in Registers
  <2>1. ASSUME NEW n \in Cell, ~(Col(n) < 3) PROVE word[Row(n) + 1] \in Byte
    BY <2>1, CellArith DEF Words
  <2> QED BY <1>1, <2>1, CellArith DEF Load, Registers
<1>3. Shift(reg, last) \in Registers
  BY <1>1 DEF Shift, Registers, Cell
<1>4. RotateColumns(reg) \in Registers
  BY <1>1, CellArith DEF RotateColumns, Registers
<1>5. ShiftRows(reg) \in Registers
  BY <1>1, CellArith DEF ShiftRows, Registers
<1>6. MixColumn(reg, mix) \in Registers
  <2>1. ASSUME NEW r \in 0..3 PROVE reg[r] \in Byte /\ MixedByte(reg, r) \in Byte
    <3>1. ASSUME NEW i \in 0..3 PROVE reg[(r + i) % 4] \in Byte
      <4>1. (r + i) % 4 \in Cell
        BY DEF Cell
      <4> QED BY <4>1, <1>1
    <3>2. r \in Cell
      BY DEF Cell
    <3> DEFINE a(i) == reg[(r + i) % 4]
    <3>3. a(0) \in Byte /\ a(1) \in Byte /\ a(2) \in Byte /\ a(3) \in Byte
      BY <3>1
    <3>4. MixedByte(reg, r) = XorAll(Xtime(a(0)), Xor(Xtime(a(1)), a(1)), Xor(a(2), a(3)))
      BY DEF MixedByte
    <3> HIDE DEF a
    <3> QED BY <1>1, <3>2, <3>3, <3>4, XorTyped, XtimeTyped DEF XorAll
  <2>2. ASSUME NEW n \in Cell
        PROVE  (IF Col(n) < 3 THEN reg[n + 4]
                ELSE IF mix THEN MixedByte(reg, Row(n)) ELSE reg[Row(n)]) \in Byte
    BY <1>1, <2>1, CellArith
  <2> QED BY <2>2 DEF MixColumn, Registers
<1> QED BY <1>2, <1>3, <1>4, <1>5, <1>6

LEMMA StateTyped ==
  ASSUME core \in CoreType, NEW word \in Words
  PROVE  StateNext(core, word) \in Registers
<1> DEFINE sum == Xor(core.state[0], core.key[0])
           last == IF FinalKeyAdd(core) THEN sum ELSE SBox[sum]
           mix == ~FinalRound(core)
<1>1. core.state \in Registers /\ core.key \in Registers
  BY DEF CoreType, Registers
<1>2. sum \in Byte
  BY <1>1, XorTyped DEF Registers, Cell
<1>3. last \in Byte
  BY <1>2, SBoxTyped
<1>4. mix \in BOOLEAN
  OBVIOUS
<1>5. \/ StateNext(core, word) = Load(core.state, word)
      \/ StateNext(core, word) = Shift(core.state, last)
      \/ StateNext(core, word) = ShiftRows(core.state)
      \/ StateNext(core, word) = MixColumn(core.state, mix)
      \/ StateNext(core, word) = core.state
  BY DEF StateNext
<1> HIDE DEF last, mix
<1> QED BY <1>1, <1>3, <1>4, <1>5, MovesTyped

LEMMA KeyTyped ==
  ASSUME core \in CoreType, NEW word \in Words
  PROVE  KeyNext(core, word) \in Registers
<1> DEFINE k == core.key
<1>1. k \in Registers /\ core.rcon \in Byte
  BY DEF CoreType, Registers
<1>2. ASSUME NEW n \in Cell PROVE k[n] \in Byte
  BY <1>1, <1>2 DEF Registers
<1>3. KeyTurn(core) \in Registers
  <2> DEFINE column == [n \in Cell |-> IF Row(n) < 3 THEN k[n + 1] ELSE k[n - 3]]
             chain == [n \in Cell |-> k[(n + 1) % 16]]
  <2>1. column \in Registers /\ chain \in Registers
    BY <1>2, CellArith DEF Registers
  <2>2. Xor(k[0], k[4]) \in Byte
    <3>1. 0 \in Cell /\ 4 \in Cell
      BY DEF Cell
    <3> QED BY <1>2, <3>1, XorTyped
  <2>3. KeyTurn(core) \in {chain, column, [chain EXCEPT ![3] = Xor(k[0], k[4])]}
    BY DEF KeyTurn
  <2> HIDE DEF k, chain, column
  <2> QED BY <2>1, <2>2, <2>3 DEF Registers
<1>4. KeyCore(core) \in Registers
  <2> DEFINE rc == IF core.control = 17 THEN core.rcon ELSE {}
             byte(n) == CASE n \in 0..2 -> k[n + 1]
                          [] n = 3 -> XorAll(SBox[k[13]], k[0], rc)
                          [] n \in 12..14 -> k[n + 1]
                          [] n = 15 -> k[12]
                          [] OTHER -> k[n]
  <2>1. rc \in Byte
    BY <1>1 DEF Byte
  <2>2. XorAll(SBox[k[13]], k[0], rc) \in Byte
    <3>1. 0 \in Cell /\ 13 \in Cell
      BY DEF Cell
    <3> HIDE DEF rc, k
    <3> QED BY <1>2, <2>1, <3>1, SBoxTyped, XorTyped DEF XorAll
  <2>3. ASSUME NEW n \in Cell PROVE byte(n) \in Byte
    <3>1. n + 1 \in Cell \/ n = 15
      BY DEF Cell
    <3>2. 12 \in Cell
      BY DEF Cell
    <3> HIDE DEF rc, k
    <3> QED BY <1>2, <2>2, <3>1, <3>2
  <2>4. KeyCore(core) = [n \in Cell |-> byte(n)]
    BY DEF KeyCore
  <2> HIDE DEF byte
  <2> QED BY <2>3, <2>4 DEF Registers
<1>5. \/ KeyNext(core, word) = Load(k, word)
      \/ KeyNext(core, word) = KeyTurn(core)
      \/ KeyNext(core, word) = RotateColumns(k)
      \/ KeyNext(core, word) = KeyCore(core)
      \/ KeyNext(core, word) = k
  BY DEF KeyNext
<1>6. {} \in Byte
  BY DEF Byte
<1> HIDE DEF k
<1> QED BY <1>1, <1>3, <1>4, <1>5, <1>6, MovesTyped

\* The counters stay in range: sInit and sDone count to four with the driver, a
\* round wraps at twenty.
LEMMA CountersTyped ==
  ASSUME ProtocolInv, TypeOK, PeripheralNext
  PROVE  core'.control \in 0..20 /\ core'.round \in 1..11
<1> DEFINE fire == ReadsCipher /\ Done(core)
<1>1. core'.control = ControlNext(core, fire) /\ core'.round = RoundNext(core)
  BY DEF PeripheralNext, CoreNext
<1>2. core.control \in 0..20 /\ core.round \in 1..11
  BY DEF TypeOK, CoreType
<1>3. core.fsm \in {"Init", "Done"} => core.control <= 3
  BY DEF ProtocolInv, DriverOK, Filling, Running, Fetching
<1>4. core.fsm = "Round" /\ ~ControlOverflows(core) => core.control < 20
  BY <1>2 DEF ControlOverflows
<1>5. ControlNext(core, fire) \in 0..20
  <2>1. CASE core.fsm = "Idle"
    BY <2>1 DEF ControlNext
  <2>2. CASE core.fsm \in {"Init", "Done"}
    BY <1>2, <1>3, <2>2 DEF ControlNext
  <2>3. CASE core.fsm = "Round"
    BY <1>2, <1>4, <2>3 DEF ControlNext
  <2> QED BY <2>1, <2>2, <2>3 DEF ProtocolInv, DriverOK
<1>6. RoundNext(core) \in 1..11
  BY <1>2 DEF RoundNext
<1> QED BY <1>1, <1>5, <1>6

LEMMA TypesStep == ProtocolInv /\ TypeOK /\ [Next]_vars => TypeOK'
<1> SUFFICES ASSUME ProtocolInv, TypeOK, [Next]_vars PROVE TypeOK'
  OBVIOUS
<1>1. CASE UNCHANGED vars
  BY <1>1 DEF TypeOK, vars, regs, driver
<1>2. CASE Next
  <2>0. DriverOK /\ PeripheralNext
    BY <1>2 DEF ProtocolInv, Next
  <2>1. DriverOK'
    BY DriverStep
  <2>2. core' \in CoreType
    <3> DEFINE plain == Offered(plainFifo)
               key == Offered(keyFifo)
    <3>1. core \in CoreType
      BY DEF TypeOK
    <3>2. plain \in Words /\ key \in Words
      <4>1. NoWord \in Words
        BY DEF NoWord, Words, Byte
      <4>2. ASSUME NEW q \in Seq(Words), q # << >> PROVE Head(q) \in Words
        BY <4>2
      <4> QED BY <2>0, <4>1, <4>2 DEF Offered, DriverOK
    <3> HIDE DEF plain, key
    <3>3. StateNext(core, plain) \in Registers /\ KeyNext(core, key) \in Registers
      BY <3>1, <3>2, StateTyped, KeyTyped
    <3>4. Zero \in Registers /\ {0} \in Byte
      BY DEF Zero, Registers, Byte
    <3>5. core'.fsm \in {"Idle", "Init", "Round", "Done"}
      BY <2>1 DEF DriverOK
    <3>6. core'.control \in 0..20 /\ core'.round \in 1..11
      BY <2>0, CountersTyped
    <3>7. Xtime(core.rcon) \in Byte /\ core.rcon \in Byte
      BY <3>1, XtimeTyped DEF CoreType
    <3>8. core' = CoreNext(core, CoreEnable, plain, key, ReadsCipher)
      BY <2>0 DEF PeripheralNext, plain, key
    <3>9. /\ core'.rcon \in Byte /\ core'.state \in Registers /\ core'.key \in Registers
          /\ core' = [fsm |-> core'.fsm, round |-> core'.round, control |-> core'.control,
                      rcon |-> core'.rcon, state |-> core'.state, key |-> core'.key]
      BY <3>3, <3>4, <3>7, <3>8 DEF CoreNext
    <3> QED BY <3>5, <3>6, <3>9 DEF CoreType, Registers
  <2>3. Len(keyFifo') <= Depth /\ Len(plainFifo') <= Depth
    <3>1. /\ Len(keyFifo) \in Nat /\ Len(keyFifo) <= 4
          /\ Len(plainFifo) \in Nat /\ Len(plainFifo) <= 4
      BY <2>0 DEF TypeOK, DriverOK, Depth
    <3>2. Cycle
      BY <2>0, CycleStep
    <3> QED BY <3>1, <3>2 DEF Cycle, Depth
  <2>4. ctrl' \in Byte /\ fetched' \in Seq(Words)
    <3>1. Cipher(core) \in Words
      <4>1. ASSUME NEW i \in 1..4 PROVE core.state[4 * (core.control % 4) + i - 1] \in Byte
        <5>1. core.control % 4 \in 0..3
          <6>1. core.control \in 0..20
            BY DEF TypeOK, CoreType
          <6> QED BY <6>1
        <5>2. 4 * (core.control % 4) + i - 1 \in Cell
          BY <5>1 DEF Cell
        <5> QED BY <5>2 DEF TypeOK, CoreType
      <4> QED BY <4>1 DEF Cipher, Words
    <3>2. CtrlValue(CtrlRead) \in Byte
      BY DEF CtrlValue, CtrlRead, Byte
    <3>3. ctrl \in Byte /\ fetched \in Seq(Words)
      BY DEF TypeOK, Words
    <3>4. Append(fetched, Cipher(core)) \in Seq(Words)
      BY <3>1, <3>3
    <3>5. \/ ctrl' = ctrl /\ fetched' = fetched
          \/ /\ ctrl' = ctrl \/ ctrl' = CtrlValue(CtrlRead)
             /\ fetched' = fetched \/ fetched' = Append(fetched, Cipher(core))
      BY <1>2 DEF Next, Wait, Start, Setup, Transfer, Complete, driver
    <3> QED BY <3>2, <3>3, <3>4, <3>5
  <2> QED BY <2>1, <2>2, <2>3, <2>4 DEF TypeOK, DriverOK, Words
<1> QED BY <1>1, <1>2

\* Every register of the core, the peripheral and the driver keeps its width: no
\* counter runs past its last value, no queue past its depth.
THEOREM TypesCorrect == Spec => []TypeOK
<1>1. Init => TypeOK
  <2> SUFFICES ASSUME Init PROVE TypeOK
    OBVIOUS
  <2>1. DriverOK
    BY InitInv DEF ProtocolInv
  <2>2. core \in CoreType
    BY DEF Init, Reset, Zero, CoreType, Byte
  <2>3. Len(keyFifo) = 0 /\ Len(plainFifo) = 0 /\ ctrl \in Byte /\ fetched \in Seq(Words)
    BY DEF Init, Byte
  <2> QED BY <2>1, <2>2, <2>3 DEF TypeOK, DriverOK, Words, Depth
<1> QED BY <1>1, InitInv, NextInv, TypesStep, PTL DEF Spec

----------------------------------------------------------------------------
(* The rounds: where the bytes of the text and of the round key are in     *)
(* every cycle.                                                            *)

\* In the next four cycles the words, a column early, turn.
Turned(key, m) == [n \in Cell |-> key[4 * ((Col(n) + 3) % 4) + ((Row(n) + m) % 4)]]

\* The first m bytes of the next key come into the first word, the last word turns.
Headed(key, next, m) ==
  [n \in Cell |-> IF n < 4 THEN IF n + m < 4 THEN key[n + m] ELSE next[(n + m) - 4]
                  ELSE IF n < 12 THEN key[n] ELSE key[12 + ((n + m) % 4)]]

CountersAt ==
  /\ core.round \in 1..11 /\ core.control \in 0..20 /\ (core.round = 11 => core.control < 16)
  /\ core.round < 11 => core.rcon = Rcon[core.round]
StateAt(texts, keys) ==
  LET r == core.round  out == Summed(r, texts[r - 1], keys[r - 1])
  IN IF core.control <= 16 THEN core.state = Moved(texts[r - 1], out, core.control)
     ELSE core.state = Moved(RowsShifted(out), texts[r], 4 * (core.control - 17))
KeyAt(keys) ==
  LET r == core.round  c == core.control
  IN core.key = IF c > 16 THEN Headed(keys[r - 1], keys[r], c - 17)
                ELSE IF r = 1 THEN Moved(keys[0], keys[0], c)
                ELSE IF c <= 12 THEN Passing(keys[r - 2], keys[r - 1], c)
                ELSE Turned(keys[r - 1], c - 12)
RoundsAt(texts, keys) == CountersAt /\ StateAt(texts, keys) /\ KeyAt(keys)

----------------------------------------------------------------------------
(* A cycle of the key.                                                     *)

\* Twelve bytes have passed: the words of the new key stand a column early.
LEMMA PassedTurns ==
  ASSUME NEW old, NEW key PROVE Passing(old, key, 12) = Turned(key, 0)
<1>1. ASSUME NEW n \in Cell PROVE Passing(old, key, 12)[n] = Turned(key, 0)[n]
  <2>1. CASE n < 4
    <3>1. 4 * ((Col(n) + 3) % 4) + ((Row(n) + 0) % 4) = n + 12
      BY <2>1 DEF Cell, Col, Row
    <3> QED BY <2>1, <3>1 DEF Passing, Turned
  <2>2. CASE ~(n < 4)
    <3>1. /\ 4 * ((Col(n) + 3) % 4) + ((Row(n) + 0) % 4) = n - 4
          /\ ~(n + 12 < 16) /\ (n + 12) - 16 = n - 4
      BY <2>2 DEF Cell, Col, Row
    <3> QED BY <2>2, <3>1 DEF Passing, Turned, Moved
  <2> QED BY <2>1, <2>2
<1> QED BY <1>1 DEF Passing, Turned

LEMMA TurnsOn ==
  ASSUME NEW key, NEW m \in 0..3, NEW reg, reg = Turned(key, m)
  PROVE  [n \in Cell |-> IF Row(n) < 3 THEN reg[n + 1] ELSE reg[n - 3]] = Turned(key, m + 1)
<1>1. ASSUME NEW n \in Cell
      PROVE  (IF Row(n) < 3 THEN reg[n + 1] ELSE reg[n - 3]) = Turned(key, m + 1)[n]
  <2>1. CASE Row(n) < 3
    <3>1. /\ n + 1 \in Cell /\ Col(n + 1) = Col(n)
          /\ (Row(n + 1) + m) % 4 = (Row(n) + (m + 1)) % 4
      BY <2>1 DEF Cell, Col, Row
    <3> QED BY <2>1, <3>1 DEF Turned
  <2>2. CASE ~(Row(n) < 3)
    <3>1. /\ n - 3 \in Cell /\ Col(n - 3) = Col(n)
          /\ (Row(n - 3) + m) % 4 = (Row(n) + (m + 1)) % 4
      BY <2>2 DEF Cell, Col, Row
    <3> QED BY <2>2, <3>1 DEF Turned
  <2> QED BY <2>1, <2>2
<1> QED BY <1>1 DEF Turned

LEMMA RotationRestores ==
  ASSUME NEW key, NEW next PROVE RotateColumns(Turned(key, 4)) = Headed(key, next, 0)
<1>1. ASSUME NEW n \in Cell
      PROVE  Turned(key, 4)[(n + 4) % 16] = Headed(key, next, 0)[n]
  <2>1. /\ (n + 4) % 16 \in Cell
        /\ 4 * ((Col((n + 4) % 16) + 3) % 4) + ((Row((n + 4) % 16) + 4) % 4) = n
    BY DEF Cell, Col, Row
  <2>2. n + 0 = n /\ (~(n < 12) => 12 + ((n + 0) % 4) = n)
    BY DEF Cell
  <2> QED BY <2>1, <2>2 DEF Turned, Headed
<1> QED BY <1>1 DEF RotateColumns, Headed

LEMMA MovedRound ==
  ASSUME NEW key, NEW next PROVE Moved(key, key, 16) = Headed(key, next, 0)
<1>1. ASSUME NEW n \in Cell PROVE Moved(key, key, 16)[n] = Headed(key, next, 0)[n]
  <2>1. ~(n + 16 < 16) /\ (n + 16) - 16 = n
    BY DEF Cell
  <2>2. n + 0 = n /\ (~(n < 12) => 12 + ((n + 0) % 4) = n)
    BY DEF Cell
  <2> QED BY <2>1, <2>2 DEF Moved, Headed
<1> QED BY <1>1 DEF Moved, Headed

\* After a round the first word is the next key's, the rest is still the round's.
LEMMA HeadedEnds ==
  ASSUME NEW key, NEW next PROVE Headed(key, next, 4) = Passing(key, next, 0)
<1>1. ASSUME NEW n \in Cell PROVE Headed(key, next, 4)[n] = Passing(key, next, 0)[n]
  <2>1. /\ n < 4 => ~(n + 4 < 4) /\ (n + 4) - 4 = n
        /\ n + 0 = n /\ n < 16 /\ (~(n < 12) => 12 + ((n + 4) % 4) = n)
    BY DEF Cell
  <2> QED BY <2>1 DEF Headed, Passing, Moved
<1> QED BY <1>1 DEF Headed, Passing

\* A byte of the next key enters the first word.
LEMMA HeadsOn ==
  ASSUME NEW key, NEW next, NEW m \in 0..3, NEW reg, reg = Headed(key, next, m),
         next[m] = XorAll(key[m], SBox[key[12 + ((m + 1) % 4)]], IF m = 0 THEN core.rcon ELSE {}),
         core.control = 17 + m, core.key = reg
  PROVE  KeyCore(core) = Headed(key, next, m + 1)
<1> DEFINE rc == IF core.control = 17 THEN core.rcon ELSE {}
           byte(n) == CASE n \in 0..2 -> reg[n + 1]
                        [] n = 3 -> XorAll(SBox[reg[13]], reg[0], rc)
                        [] n \in 12..14 -> reg[n + 1]
                        [] n = 15 -> reg[12]
                        [] OTHER -> reg[n]
<1>1. KeyCore(core) = [n \in Cell |-> byte(n)]
  BY DEF KeyCore
<1>2. rc = IF m = 0 THEN core.rcon ELSE {}
  OBVIOUS
<1>3. reg[0] = key[m] /\ reg[13] = key[12 + ((m + 1) % 4)]
  <2>1. /\ 0 \in Cell /\ 13 \in Cell /\ 0 + m < 4 /\ 0 + m = m
        /\ (13 + m) % 4 = (m + 1) % 4
    BY DEF Cell
  <2> QED BY <2>1 DEF Headed
<1>4. XorAll(SBox[reg[13]], reg[0], rc) = next[m]
  <2>1. XorAll(SBox[reg[13]], reg[0], rc) = XorAll(reg[0], SBox[reg[13]], rc)
    <3> DEFINE x == SBox[reg[13]]
               y == reg[0]
    <3> HIDE DEF x, y, rc
    <3>1. XorAll(x, y, rc) = XorAll(y, x, rc)
      BY XorGroup DEF XorAll
    <3> QED BY <3>1 DEF x, y
  <2> HIDE DEF rc
  <2> QED BY <1>2, <1>3, <2>1
<1>5. ASSUME NEW n \in Cell PROVE byte(n) = Headed(key, next, m + 1)[n]
  <2>1. CASE n \in 0..2
    <3>1. n + 1 \in Cell /\ n + 1 < 4 /\ n < 4 /\ (n + 1) + m = n + (m + 1)
      BY <2>1 DEF Cell
    <3>2. byte(n) = reg[n + 1]
      BY <2>1
    <3> HIDE DEF byte
    <3> QED BY <3>1, <3>2 DEF Headed
  <2>2. CASE n = 3
    <3>1. ~(n + (m + 1) < 4) /\ (n + (m + 1)) - 4 = m /\ n < 4
      BY <2>2
    <3>2. byte(n) = next[m]
      BY <1>4, <2>2
    <3> HIDE DEF byte
    <3> QED BY <3>1, <3>2 DEF Headed
  <2>3. CASE n \in 4..11
    <3>1. byte(n) = reg[n] /\ ~(n < 4) /\ n < 12
      BY <2>3
    <3> HIDE DEF byte
    <3> QED BY <3>1 DEF Headed
  <2>4. CASE n \in 12..14
    <3>1. /\ n + 1 \in Cell /\ ~(n + 1 < 4) /\ ~(n + 1 < 12) /\ ~(n < 4) /\ ~(n < 12)
          /\ (n + 1) + m = n + (m + 1)
      BY <2>4 DEF Cell
    <3>2. byte(n) = reg[n + 1]
      BY <2>4
    <3> HIDE DEF byte
    <3> QED BY <3>1, <3>2 DEF Headed
  <2>5. CASE n = 15
    <3>1. 12 \in Cell /\ (12 + m) % 4 = (n + (m + 1)) % 4
      BY <2>5 DEF Cell
    <3>2. byte(n) = reg[12]
      BY <2>5
    <3> HIDE DEF byte
    <3> QED BY <2>5, <3>1, <3>2 DEF Headed
  <2>6. n \in 0..2 \/ n = 3 \/ n \in 4..11 \/ n \in 12..14 \/ n = 15
    BY DEF Cell
  <2> HIDE DEF byte
  <2> QED BY <2>1, <2>2, <2>3, <2>4, <2>5, <2>6
<1> HIDE DEF byte
<1> QED BY <1>1, <1>5 DEF Headed

----------------------------------------------------------------------------
(* A cycle of a round.                                                     *)

\* The byte of the key at the exit is the one the text at the exit is added to.
LEMMA KeyAtExit ==
  ASSUME NEW texts, NEW keys, RoundsAt(texts, keys), core.control < 16
  PROVE  core.key[0] = keys[core.round - 1][core.control]
<1> DEFINE r == core.round
           c == core.control
<1>1. c \in 0..15 /\ r \in 1..11
  BY DEF RoundsAt, CountersAt
<1>2. core.key = IF r = 1 THEN Moved(keys[0], keys[0], c)
                 ELSE IF c <= 12 THEN Passing(keys[r - 2], keys[r - 1], c)
                 ELSE Turned(keys[r - 1], c - 12)
  BY <1>1 DEF RoundsAt, KeyAt
<1> HIDE DEF r, c
<1>3. 0 \in Cell /\ 0 + c = c /\ c < 16
  BY <1>1 DEF Cell
<1>4. CASE r = 1
  BY <1>2, <1>3, <1>4 DEF Moved, r, c
<1>5. CASE r # 1 /\ c <= 12
  BY <1>2, <1>3, <1>5 DEF Passing, r, c
<1>6. CASE r # 1 /\ ~(c <= 12)
  <2>1. 4 * ((Col(0) + 3) % 4) + ((Row(0) + (c - 12)) % 4) = c
    BY <1>1, <1>6 DEF Col, Row
  <2>2. core.key[0] = keys[r - 1][4 * ((Col(0) + 3) % 4) + ((Row(0) + (c - 12)) % 4)]
    BY <1>2, <1>3, <1>6 DEF Turned
  <2> QED BY <2>1, <2>2 DEF r, c
<1> QED BY <1>4, <1>5, <1>6

LEMMA StateRound ==
  ASSUME NEW texts, NEW keys, Standard(texts, keys), RoundsAt(texts, keys),
         core.fsm = "Round", NEW word
  PROVE  LET r == core.round  c == core.control
             out == Summed(r, texts[r - 1], keys[r - 1])
             next == StateNext(core, word)
         IN /\ c < 16 => next = Moved(texts[r - 1], out, c + 1)
            /\ c = 16 => next = Moved(RowsShifted(out), texts[r], 0)
            /\ c > 16 => next = Moved(RowsShifted(out), texts[r], 4 * (c - 16))
<1> DEFINE r == core.round
           c == core.control
           text == texts[r - 1]
           key == keys[r - 1]
           out == Summed(r, text, key)
           next == StateNext(core, word)
<1>1. r \in 1..11 /\ c \in 0..20 /\ (r = 11 => c < 16)
  BY DEF RoundsAt, CountersAt
<1>2. /\ text \in Text /\ key \in Text
      /\ r <= 10 => texts[r] = Round(r, text, key)
  BY <1>1, StandardRounds
<1>3. /\ c <= 16 => core.state = Moved(text, out, c)
      /\ c > 16 => core.state = Moved(RowsShifted(out), texts[r], 4 * (c - 17))
  BY <1>1 DEF RoundsAt, StateAt
<1>4. out \in Text /\ (r # 11 => Substituted(AddKey(text, key)) = out)
  BY <1>2, SummedTyped
<1>5. ASSUME c < 16 PROVE next = Moved(text, out, c + 1)
  <2> DEFINE sum == Xor(core.state[0], core.key[0])
  <2>1. next = Shift(core.state, IF r = 11 THEN sum ELSE SBox[sum])
    BY <1>1, <1>5 DEF StateNext, FinalKeyAdd
  <2>2. core.state[0] = text[c]
    <3>1. 0 \in Cell /\ 0 + c < 16 /\ 0 + c = c
      BY <1>1, <1>5 DEF Cell
    <3> HIDE DEF c, text, out
    <3>2. Moved(text, out, c)[0] = text[c]
      BY <3>1 DEF Moved
    <3> QED BY <1>3, <1>5, <1>1, <3>2
  <2>3. core.key[0] = key[c]
    BY <1>5, KeyAtExit
  <2>4. out[c] = IF r = 11 THEN sum ELSE SBox[sum]
    <3>1. c \in Cell
      BY <1>1, <1>5 DEF Cell
    <3> QED BY <2>2, <2>3, <3>1 DEF Summed
  <2>5. c \in 0..15
    BY <1>1, <1>5
  <2> HIDE DEF sum, next, out, text, c
  <2> QED BY <1>1, <1>3, <1>5, <2>1, <2>4, <2>5, ShiftMoves
<1>6. ASSUME c = 16 PROVE next = Moved(RowsShifted(out), texts[r], 0)
  <2>1. next = ShiftRows(core.state)
    BY <1>6 DEF StateNext
  <2>2. core.state = out
    BY <1>2, <1>3, <1>4, <1>6, MovedEnds
  <2>3. RowsShifted(out) \in Text
    <3>1. RowsShifted(out) = RowsShifted(Substituted(AddKey(text, key)))
      BY <1>1, <1>4, <1>6
    <3> QED BY <1>2, <3>1, AddKeyTyped, ShiftedTyped
  <2> HIDE DEF next, out
  <2> QED BY <1>4, <2>1, <2>2, <2>3, ShiftRowsIs, MovedEnds
<1>7. ASSUME c > 16 PROVE next = Moved(RowsShifted(out), texts[r], 4 * (c - 16))
  <2> DEFINE m == c - 17
  <2>1. r \in 1..10 /\ m \in 0..3 /\ c - 16 = m + 1
    BY <1>1, <1>7
  <2>2. core.state = Moved(RowsShifted(out), texts[r], 4 * m)
    BY <1>3, <1>7
  <2>3. next = MixColumn(core.state, r # 10)
    <3>1. ~(c < 16) /\ c # 16
      BY <1>1, <1>7
    <3> QED BY <1>7, <3>1 DEF StateNext, FinalRound
  <2> DEFINE reg == core.state
  <2> HIDE DEF m, next, r, c, reg
  <2>4. MixColumn(reg, r # 10) = Moved(RowsShifted(out), texts[r], 4 * (m + 1))
    BY <2>1, <2>2, MixMoves DEF reg
  <2> QED BY <2>1, <2>3, <2>4 DEF reg, c
<1> QED BY <1>5, <1>6, <1>7

LEMMA KeyRound ==
  ASSUME NEW texts, NEW keys, Standard(texts, keys), RoundsAt(texts, keys),
         core.fsm = "Round", NEW word
  PROVE  LET r == core.round  c == core.control  next == KeyNext(core, word)
         IN /\ c < 16 => next = IF r = 1 THEN Moved(keys[0], keys[0], c + 1)
                                ELSE IF c < 12 THEN Passing(keys[r - 2], keys[r - 1], c + 1)
                                ELSE Turned(keys[r - 1], c - 11)
            /\ c >= 16 => next = Headed(keys[r - 1], keys[r], c - 16)
<1> DEFINE r == core.round
           c == core.control
           key == keys[r - 1]
           next == KeyNext(core, word)
           reg == core.key
<1>1. r \in 1..11 /\ c \in 0..20 /\ (r = 11 => c < 16)
  BY DEF RoundsAt, CountersAt
<1>2. reg = IF c > 16 THEN Headed(key, keys[r], c - 17)
            ELSE IF r = 1 THEN Moved(keys[0], keys[0], c)
            ELSE IF c <= 12 THEN Passing(keys[r - 2], key, c)
            ELSE Turned(key, c - 12)
  BY DEF RoundsAt, KeyAt
<1>3. ASSUME c < 16, r = 1 PROVE next = Moved(keys[0], keys[0], c + 1)
  <2>1. next = [n \in Cell |-> reg[(n + 1) % 16]]
    <3>1. next = KeyTurn(core)
      BY <1>1, <1>3 DEF KeyNext
    <3> QED BY <1>3, <3>1, Zenon DEF KeyTurn
  <2>2. c \in 0..15 /\ reg = Moved(keys[0], keys[0], c)
    BY <1>1, <1>2, <1>3
  <2> HIDE DEF next, c, reg
  <2> QED BY <2>1, <2>2, MovesOn
<1>4. ASSUME c < 12, r # 1 PROVE next = Passing(keys[r - 2], key, c + 1)
  <2>1. next = [[n \in Cell |-> reg[(n + 1) % 16]] EXCEPT ![3] = Xor(reg[0], reg[4])]
    <3>1. c < 16
      BY <1>1, <1>4
    <3>2. next = KeyTurn(core)
      BY <1>1, <3>1 DEF KeyNext
    <3> QED BY <1>4, <3>2, Zenon DEF KeyTurn
  <2>2. c \in 0..11 /\ reg = Passing(keys[r - 2], key, c)
    BY <1>1, <1>2, <1>4
  <2>3. \A n \in 0..11 : key[n + 4] = Xor(key[n], keys[r - 2][n + 4])
    <3>1. r - 1 \in 1..11 /\ r - 1 <= 10 /\ r - 1 \in 1..10 /\ (r - 1) - 1 = r - 2
      BY <1>1, <1>4
    <3>2. keys[r - 2] \in Text /\ key = NextKey(r - 1, keys[r - 2])
      BY <3>1, StandardRounds
    <3> DEFINE i == r - 1
               old == keys[r - 2]
    <3>3. i \in 1..10 /\ old \in Text /\ key = NextKey(i, old)
      BY <3>1, <3>2
    <3> HIDE DEF i, old, key
    <3>4. \A n \in 0..11 : key[n + 4] = Xor(key[n], old[n + 4])
      BY <3>3, NextKeyIs
    <3> QED BY <3>4 DEF old
  <2> DEFINE old == keys[r - 2]
  <2>4. c \in 0..11 /\ reg = Passing(old, key, c)
    BY <2>2
  <2>5. \A n \in 0..11 : key[n + 4] = Xor(key[n], old[n + 4])
    BY <2>3
  <2> HIDE DEF next, c, reg, key, old
  <2>6. \A n \in Cell : (IF n = 3 THEN Xor(reg[0], reg[4]) ELSE reg[(n + 1) % 16])
                         = Passing(old, key, c + 1)[n]
    BY <2>4, <2>5, PassesOn
  <2>7. 3 \in Cell
    BY DEF Cell
  <2>8. next = Passing(old, key, c + 1)
    BY <2>1, <2>6, <2>7 DEF Passing
  <2> QED BY <2>8 DEF old
<1>5. ASSUME c \in 12..15, r # 1 PROVE next = Turned(key, c - 11)
  <2>1. next = [n \in Cell |-> IF Row(n) < 3 THEN reg[n + 1] ELSE reg[n - 3]]
    <3>1. c < 16 /\ ~(c < 12)
      BY <1>5
    <3> QED BY <1>5, <3>1 DEF KeyNext, KeyTurn
  <2>2. reg = Turned(key, c - 12)
    <3>1. CASE c = 12
      <4>1. reg = Passing(keys[r - 2], key, 12)
        BY <1>2, <1>5, <3>1
      <4> QED BY <3>1, <4>1, PassedTurns
    <3>2. CASE c # 12
      BY <1>2, <1>5, <3>2
    <3> QED BY <3>1, <3>2
  <2>3. c - 12 \in 0..3 /\ (c - 12) + 1 = c - 11
    BY <1>5
  <2> HIDE DEF next, c, reg, key
  <2> QED BY <2>1, <2>2, <2>3, TurnsOn
<1>6. ASSUME c = 16 PROVE next = Headed(key, keys[r], c - 16)
  <2>1. c - 16 = 0
    BY <1>6
  <2>2. CASE r = 1
    <3>1. next = reg
      BY <1>6, <2>2 DEF KeyNext
    <3>2. reg = Moved(key, key, 16)
      BY <1>2, <1>6, <2>2
    <3> HIDE DEF next, reg, key
    <3> QED BY <2>1, <3>1, <3>2, MovedRound
  <2>3. CASE r # 1
    <3>1. next = RotateColumns(reg)
      <4>1. r > 1
        BY <1>1, <2>3
      <4> QED BY <1>6, <4>1 DEF KeyNext
    <3>2. reg = Turned(key, 4)
      BY <1>2, <1>6, <2>3
    <3> HIDE DEF next, reg, key
    <3> QED BY <2>1, <3>1, <3>2, RotationRestores
  <2> QED BY <2>2, <2>3
<1>7. ASSUME c > 16 PROVE next = Headed(key, keys[r], c - 16)
  <2> DEFINE m == c - 17
  <2>1. m \in 0..3 /\ c = 17 + m /\ c - 16 = m + 1 /\ r \in 1..10 /\ r < 11 /\ r <= 10
    BY <1>1, <1>7
  <2>2. next = KeyCore(core)
    <3>1. ~(c < 16) /\ c # 16 /\ c >= 17
      BY <1>1, <1>7
    <3> QED BY <1>7, <3>1 DEF KeyNext
  <2>3. reg = Headed(key, keys[r], m)
    BY <1>2, <1>7
  <2>4. keys[r][m] = XorAll(key[m], SBox[key[12 + ((m + 1) % 4)]], IF m = 0 THEN core.rcon ELSE {})
    <3>1. core.rcon = Rcon[r]
      BY <2>1 DEF RoundsAt, CountersAt
    <3>2. key \in Text /\ keys[r] = NextKey(r, key)
      BY <1>1, <2>1, StandardRounds
    <3> HIDE DEF m, key, r
    <3> QED BY <2>1, <3>1, <3>2, NextKeyIs
  <2> HIDE DEF next, reg, key, m
  <2>5. KeyCore(core) = Headed(key, keys[r], m + 1)
    BY <2>1, <2>3, <2>4, HeadsOn DEF reg
  <2> QED BY <2>1, <2>2, <2>5
<1>8. c < 12 \/ c \in 12..15 \/ c = 16 \/ c > 16
  BY <1>1
<1> HIDE DEF next, reg, key
<1> QED BY <1>1, <1>3, <1>4, <1>5, <1>6, <1>7, <1>8 DEF next, key

\* A cycle goes on to where the bytes are in the next one; the last one of the last
\* pass leaves the ciphertext.
LEMMA RoundStep ==
  ASSUME NEW texts, NEW keys, Standard(texts, keys), RoundsAt(texts, keys),
         core.fsm = "Round", PeripheralNext
  PROVE  /\ core'.fsm = "Round" => RoundsAt(texts, keys)'
         /\ core'.fsm = "Done" => core'.state = AddKey(texts[10], keys[10])
<1> DEFINE r == core.round
           c == core.control
           out == Summed(r, texts[r - 1], keys[r - 1])
<1>1. r \in 1..11 /\ c \in 0..20 /\ (r = 11 => c < 16) /\ (r < 11 => core.rcon = Rcon[r])
  BY DEF RoundsAt, CountersAt
<1>2. /\ core'.fsm = (IF r = 11 /\ c = 15 THEN "Done" ELSE "Round")
      /\ core'.control = (IF (r = 11 /\ c = 15) \/ c = 20 THEN 0 ELSE c + 1)
      /\ core'.round = (IF c = 20 THEN r + 1 ELSE r)
      /\ core'.rcon = (IF c = 20 THEN Xtime(core.rcon) ELSE core.rcon)
  <2>1. /\ core'.fsm = FsmNext(core, CoreEnable, ReadsCipher /\ Done(core))
        /\ core'.control = ControlNext(core, ReadsCipher /\ Done(core))
        /\ core'.round = RoundNext(core)
        /\ core'.rcon = IF core.fsm = "Idle" THEN {0}
                        ELSE IF ControlOverflows(core) THEN Xtime(core.rcon) ELSE core.rcon
    BY DEF PeripheralNext, CoreNext
  <2>2. /\ core'.fsm = (IF r = 11 /\ c = 15 THEN "Done" ELSE "Round")
        /\ core'.rcon = (IF c = 20 THEN Xtime(core.rcon) ELSE core.rcon)
    BY <2>1 DEF FsmNext, RoundsEnd, ControlOverflows
  <2>3. core'.control = (IF (r = 11 /\ c = 15) \/ c = 20 THEN 0 ELSE c + 1)
    BY <2>1 DEF ControlNext, RoundsEnd, ControlOverflows
  <2>4. core'.round = (IF c = 20 THEN r + 1 ELSE r)
    <3>1. ~(r = 11 /\ c = 20)
      BY <1>1
    <3> QED BY <2>1, <3>1 DEF RoundNext, ControlOverflows
  <2> QED BY <2>2, <2>3, <2>4
<1>3. \E word : core'.state = StateNext(core, word)
  <2>1. core'.state = StateNext(core, Offered(plainFifo))
    BY DEF PeripheralNext, CoreNext
  <2> QED BY <2>1
<1>4. \E word : core'.key = KeyNext(core, word)
  <2>1. core'.key = KeyNext(core, Offered(keyFifo))
    BY DEF PeripheralNext, CoreNext
  <2> QED BY <2>1
<1>5. /\ c < 16 => core'.state = Moved(texts[r - 1], out, c + 1)
      /\ c = 16 => core'.state = Moved(RowsShifted(out), texts[r], 0)
      /\ c > 16 => core'.state = Moved(RowsShifted(out), texts[r], 4 * (c - 16))
  BY <1>3, StateRound
<1>6. /\ c < 16 => core'.key = IF r = 1 THEN Moved(keys[0], keys[0], c + 1)
                               ELSE IF c < 12 THEN Passing(keys[r - 2], keys[r - 1], c + 1)
                               ELSE Turned(keys[r - 1], c - 11)
      /\ c >= 16 => core'.key = Headed(keys[r - 1], keys[r], c - 16)
  BY <1>4, KeyRound
<1>7. texts[r - 1] \in Text /\ keys[r - 1] \in Text /\ out \in Text
  BY <1>1, StandardRounds, SummedTyped
<1>8. ASSUME r = 11, c = 15 PROVE core'.state = AddKey(texts[10], keys[10])
  <2>1. core'.state = Moved(texts[10], out, 16) /\ texts[10] \in Text /\ keys[10] \in Text
    BY <1>5, <1>7, <1>8
  <2>2. core'.state = out
    BY <1>7, <2>1, MovedEnds
  <2> QED BY <1>8, <2>1, <2>2, SummedTyped
<1>9. ASSUME c = 20
      PROVE  RoundsAt(texts, keys)'
  <2>1. r \in 1..10 /\ core'.control = 0 /\ core'.round = r + 1
    BY <1>1, <1>2, <1>9
  <2>2. texts[r] \in Text /\ keys[r] \in Text
    <3>1. r + 1 \in 1..11 /\ (r + 1) - 1 = r
      BY <2>1
    <3> QED BY <3>1, StandardRounds
  <2>3. CountersAt'
    <3>1. r + 1 < 11 => core'.rcon = Rcon[r + 1]
      <4>1. r + 1 < 11 => r \in 1..9
        BY <2>1
      <4> QED BY <1>1, <1>2, <1>9, <2>1, <4>1, RconDoubles
    <3> QED BY <2>1, <3>1 DEF CountersAt
  <2>4. core'.state = texts[r]
    <3>1. core'.state = Moved(RowsShifted(out), texts[r], 16)
      BY <1>5, <1>9
    <3> QED BY <2>2, <3>1, MovedEnds
  <2>5. core'.key = Passing(keys[r - 1], keys[r], 0)
    <3>1. core'.key = Headed(keys[r - 1], keys[r], 4)
      BY <1>6, <1>9
    <3> QED BY <3>1, HeadedEnds
  <2>6. (r + 1) - 1 = r /\ (r + 1) - 2 = r - 1 /\ r + 1 # 1
    BY <2>1
  <2>7. StateAt(texts, keys)'
    <3>1. Moved(texts[r], Summed(r + 1, texts[r], keys[r]), 0) = texts[r]
      BY <2>2, MovedEnds
    <3> QED BY <2>1, <2>4, <2>6, <3>1 DEF StateAt
  <2>8. KeyAt(keys)'
    BY <2>1, <2>5, <2>6 DEF KeyAt
  <2> QED BY <2>3, <2>7, <2>8 DEF RoundsAt
<1>10. ASSUME c # 20, ~(r = 11 /\ c = 15)
       PROVE  RoundsAt(texts, keys)'
  <2>1. /\ core'.control = c + 1 /\ core'.round = r /\ core'.rcon = core.rcon
        /\ c \in 0..19 /\ (r = 11 => c + 1 < 16)
    BY <1>1, <1>2, <1>10
  <2>2. CountersAt'
    BY <1>1, <2>1 DEF CountersAt
  <2>3. StateAt(texts, keys)'
    <3>1. /\ c + 1 <= 16 => core'.state = Moved(texts[r - 1], out, c + 1)
          /\ ~(c + 1 <= 16) => core'.state = Moved(RowsShifted(out), texts[r], 4 * ((c + 1) - 17))
      <4>1. CASE c < 16
        BY <1>5, <2>1, <4>1
      <4>2. CASE c = 16
        BY <1>5, <2>1, <4>2
      <4>3. CASE c > 16
        <5>1. ~(c + 1 <= 16) /\ 4 * ((c + 1) - 17) = 4 * (c - 16)
          BY <2>1, <4>3
        <5> QED BY <1>5, <4>3, <5>1
      <4> QED BY <2>1, <4>1, <4>2, <4>3
    <3> QED BY <2>1, <3>1 DEF StateAt
  <2>4. KeyAt(keys)'
    <3>1. core'.key = IF c + 1 > 16 THEN Headed(keys[r - 1], keys[r], (c + 1) - 17)
                      ELSE IF r = 1 THEN Moved(keys[0], keys[0], c + 1)
                      ELSE IF c + 1 <= 12 THEN Passing(keys[r - 2], keys[r - 1], c + 1)
                      ELSE Turned(keys[r - 1], (c + 1) - 12)
      <4>1. /\ c + 1 > 16 <=> c >= 16
            /\ c + 1 <= 12 <=> c < 12
            /\ (c + 1) - 17 = c - 16 /\ (c + 1) - 12 = c - 11
            /\ c >= 16 \/ c < 16
        BY <2>1
      <4> QED BY <1>6, <4>1
    <3> QED BY <2>1, <3>1 DEF KeyAt
  <2> QED BY <2>2, <2>3, <2>4 DEF RoundsAt
<1> QED BY <1>2, <1>8, <1>9, <1>10

----------------------------------------------------------------------------
(* The answers: what the driver writes, the core takes; what the core has  *)
(* made of it, the driver fetches.                                         *)

\* A queue holds the words of a block from the one after the first "taken" on.
Content(q, bytes, taken) == \A i \in 1..Len(q) : q[i] = Word(bytes, i + taken)
Popped == IF core.fsm = "Init" THEN core.control ELSE 0

Loaded(reg, bytes) == reg = Moved(Zero, Cells(bytes), 4 * core.control)

Contents ==
  /\ block = Len(Blocks) + 1 => at = 1
  /\ Content(keyFifo, Blocks[block].key, Popped)
  /\ Content(plainFifo, Blocks[block].plain, Popped)
Computed ==
  /\ core.fsm = "Init" => /\ core.round = 1 /\ core.rcon = {0}
                          /\ Loaded(core.state, Blocks[block].plain)
                          /\ Loaded(core.key, Blocks[block].key)
  /\ core.fsm = "Round" => RoundsAt(BlockTexts[block], BlockKeys[block])
  /\ core.fsm = "Done" => core.state = Cells(Blocks[block].cipher)
Answered ==
  /\ Len(fetched) = 4 * (block - 1) + (IF at \in 12..15 THEN at - 12 ELSE 0)
  /\ KnownAnswer

CipherInv == ProtocolInv /\ TypeOK /\ Contents /\ Computed /\ Answered

\* The vectors are texts, and the standard encrypts them.
LEMMA VectorTyped ==
  ASSUME NEW b \in 1..Len(Blocks)
  PROVE  /\ Blocks[b].key \in [1..16 -> Byte] /\ Blocks[b].plain \in [1..16 -> Byte]
         /\ Blocks[b].cipher \in [1..16 -> Byte]
<1> DEFINE R == [key : [1..16 -> Byte], plain : [1..16 -> Byte], cipher : [1..16 -> Byte]]
<1>1. Blocks[b] \in R
  <2>1. Blocks \in Seq(R)
    BY BlocksAssumption
  <2> HIDE DEF R
  <2> QED BY <2>1
<1> QED BY <1>1

LEMMA VectorStandard ==
  ASSUME NEW b \in 1..Len(Blocks)
  PROVE  /\ Standard(BlockTexts[b], BlockKeys[b])
         /\ BlockTexts[b][0] = Cells(Blocks[b].plain) /\ BlockKeys[b][0] = Cells(Blocks[b].key)
         /\ AddKey(BlockTexts[b][10], BlockKeys[b][10]) = Cells(Blocks[b].cipher)
<1> DEFINE key == Blocks[b].key
           plain == Blocks[b].plain
           keys == RoundKeys(key)
           texts == Texts(plain, keys)
<1>1. b \in DOMAIN Blocks
  <2>1. Blocks \in Seq([key : [1..16 -> Byte], plain : [1..16 -> Byte], cipher : [1..16 -> Byte]])
    BY BlocksAssumption
  <2> QED BY <2>1
<1>2. BlockKeys[b] = keys /\ BlockTexts[b] = texts
  <2> DEFINE f == [i \in DOMAIN Blocks |-> RoundKeys(Blocks[i].key)]
             g == [i \in DOMAIN Blocks |-> Texts(Blocks[i].plain, RoundKeys(Blocks[i].key))]
  <2>1. BlockKeys = f /\ BlockTexts = g
    BY EvaluatedIs DEF BlockKeys, BlockTexts
  <2>2. f[b] = keys /\ g[b] = texts
    BY <1>1
  <2> HIDE DEF f, g
  <2> QED BY <2>1, <2>2
<1>3. key \in [1..16 -> Byte] /\ plain \in [1..16 -> Byte]
  BY VectorTyped
<1>4. Cells(Blocks[b].cipher) = Ciphertext(plain, key)
  BY <1>1, VectorsAssumption DEF IsAes
<1>5. /\ Standard(texts, keys) /\ texts[0] = Cells(plain) /\ keys[0] = Cells(key)
      /\ Ciphertext(plain, key) = AddKey(texts[10], keys[10])
  BY <1>3, StandardIs
<1> QED BY <1>2, <1>4, <1>5

\* A queue keeps its words in order.
LEMMA QueueGains ==
  ASSUME NEW q \in Seq(Words), NEW bytes, NEW taken \in Nat, Content(q, bytes, taken),
         NEW push \in BOOLEAN, NEW word \in Words, Len(q) <= Depth,
         push => Len(q) < Depth /\ word = Word(bytes, Len(q) + 1 + taken)
  PROVE  Content(FifoNext(q, push, word, FALSE), bytes, taken)
<1> DEFINE n == Len(q)
           next == FifoNext(q, push, word, FALSE)
<1>1. n \in Nat
  OBVIOUS
<1>2. CASE push
  <2>1. next = q \o << word >>
    BY <1>2 DEF FifoNext, Pushed
  <2>2. q \o << word >> = Append(q, word)
    OBVIOUS
  <2>3. Len(Append(q, word)) = n + 1 /\ Append(q, word)[n + 1] = word
        /\ \A i \in 1..n : Append(q, word)[i] = q[i]
    OBVIOUS
  <2> DEFINE longer == Append(q, word)
  <2>4. word = Word(bytes, (n + 1) + taken)
    BY <1>2
  <2>5. \A i \in 1..n : q[i] = Word(bytes, i + taken)
    BY DEF Content
  <2> HIDE DEF n, longer
  <2>6. \A i \in 1..n + 1 : longer[i] = Word(bytes, i + taken)
    <3>1. \A i \in 1..n + 1 : i \in 1..n \/ i = n + 1
      BY <1>1
    <3> QED BY <2>3, <2>4, <2>5, <3>1 DEF longer
  <2>7. next = longer /\ Len(longer) = n + 1
    BY <2>1, <2>2, <2>3 DEF longer
  <2>8. Content(longer, bytes, taken)
    BY <2>6, <2>7 DEF Content
  <2> QED BY <2>7, <2>8
<1>3. CASE ~push
  <2>1. next = q \o << >>
    BY <1>3 DEF FifoNext, Pushed
  <2>2. q \o << >> = q
    OBVIOUS
  <2> QED BY <2>1, <2>2
<1> QED BY <1>2, <1>3

LEMMA QueueGives ==
  ASSUME NEW q \in Seq(Words), NEW bytes, NEW taken \in Nat, Content(q, bytes, taken),
         NEW word, q # << >>
  PROVE  /\ Content(FifoNext(q, FALSE, word, TRUE), bytes, taken + 1)
         /\ Offered(q) = Word(bytes, taken + 1)
<1> DEFINE n == Len(q)
           rest == Tail(q)
<1>1. n \in Nat /\ n > 0 /\ rest \in Seq(Words) /\ Len(rest) = n - 1 /\ Head(q) = q[1]
      /\ \A i \in 1..n - 1 : rest[i] = q[i + 1]
  OBVIOUS
<1>2. \A i \in 1..n : q[i] = Word(bytes, i + taken)
  BY DEF Content
<1>3. FifoNext(q, FALSE, word, TRUE) = rest \o << >>
  BY DEF FifoNext, Pushed
<1>4. Offered(q) = q[1]
  BY <1>1 DEF Offered
<1> HIDE DEF n, rest
<1>5. rest \o << >> = rest
  BY <1>1
<1>6. 1 \in 1..n /\ 1 + taken = taken + 1
  BY <1>1
<1>7. \A i \in 1..n - 1 : rest[i] = Word(bytes, i + (taken + 1))
  <2>1. \A i \in 1..n - 1 : i + 1 \in 1..n /\ (i + 1) + taken = i + (taken + 1)
    BY <1>1
  <2> QED BY <1>1, <1>2, <2>1
<1>8. Offered(q) = Word(bytes, taken + 1)
  BY <1>2, <1>4, <1>6
<1>9. Content(FifoNext(q, FALSE, word, TRUE), bytes, taken + 1)
  BY <1>1, <1>3, <1>5, <1>7 DEF Content
<1> QED BY <1>8, <1>9

\* A word that the core loads follows those before it.
LEMMA LoadMoves ==
  ASSUME NEW bytes, NEW m \in 0..3, NEW reg, reg = Moved(Zero, Cells(bytes), 4 * m)
  PROVE  Load(reg, Word(bytes, m + 1)) = Moved(Zero, Cells(bytes), 4 * (m + 1))
<1> DEFINE word == Word(bytes, m + 1)
           next == Load(reg, word)
<1>1. next = [n \in Cell |-> next[n]]
  BY DEF Load
<1>2. ASSUME NEW n \in 0..11 PROVE next[n] = Moved(Zero, Cells(bytes), 4 * m)[n + 4]
  <2>1. n \in Cell /\ Col(n) < 3
    BY DEF Cell, Col
  <2> QED BY <2>1 DEF Load
<1>3. ASSUME NEW j \in 0..3 PROVE next[12 + j] = Cells(bytes)[4 * m + j]
  <2>1. 12 + j \in Cell /\ ~(Col(12 + j) < 3) /\ Row(12 + j) = j /\ j + 1 \in 1..4
    BY DEF Cell, Col, Row
  <2>2. next[12 + j] = word[j + 1]
    BY <2>1 DEF Load
  <2>3. 4 * ((m + 1) - 1) + (j + 1) = (4 * m + j) + 1 /\ 4 * m + j \in Cell
    BY DEF Cell
  <2>4. word[j + 1] = bytes[(4 * m + j) + 1]
    BY <2>1, <2>3 DEF Word
  <2> QED BY <2>2, <2>3, <2>4 DEF Cells
<1> HIDE DEF next
<1>4. next = Moved(Zero, Cells(bytes), 4 * (m + 1))
  BY <1>1, <1>2, <1>3, ColumnMoves
<1> QED BY <1>4 DEF next, word

----------------------------------------------------------------------------
(* The invariant is kept.                                                  *)

LEMMA CipherInit == Init => CipherInv
<1> SUFFICES ASSUME Init PROVE CipherInv
  OBVIOUS
<1>1. ProtocolInv /\ TypeOK
  <2>1. ProtocolInv
    BY InitInv
  <2>2. core \in CoreType
    BY DEF Init, Reset, Zero, CoreType, Byte
  <2>3. Len(keyFifo) = 0 /\ Len(plainFifo) = 0 /\ ctrl \in Byte /\ fetched \in Seq(Words)
    BY DEF Init, Byte
  <2> QED BY <2>1, <2>2, <2>3 DEF TypeOK, ProtocolInv, DriverOK, Words, Depth
<1>2. Contents
  <2>1. Len(keyFifo) = 0 /\ Len(plainFifo) = 0 /\ at = 1
    BY DEF Init
  <2> QED BY <2>1 DEF Contents, Content
<1>3. Computed
  BY DEF Init, Reset, Computed
<1>4. Answered
  BY DEF Init, Answered, KnownAnswer
<1> QED BY <1>1, <1>2, <1>3, <1>4 DEF CipherInv

\* Where the driver is, seen from the core, and what it does to its two counters.
LEMMA Places ==
  ASSUME ProtocolInv, Contents, Next
  PROVE  /\ PeripheralNext /\ Cycle /\ core.control \in Nat
         /\ core.fsm \in {"Idle", "Init", "Round", "Done"}
         /\ block \in 1..Len(Blocks) + 1 /\ (at # 1 => block \in 1..Len(Blocks))
         /\ core.fsm = "Idle" => at \in 1..11
         /\ core.fsm \in {"Init", "Round"} => at = 11
         /\ core.fsm = "Done" => at \in 11..15 /\ core.control \in 0..3
         /\ core.fsm # "Idle" => block \in 1..Len(Blocks)
         /\ core.fsm # "Done" \/ core'.fsm = "Done" => block' = block
<1>1. PeripheralNext /\ Cycle
  BY CycleStep DEF ProtocolInv, Next
<1>2. /\ core.fsm \in {"Idle", "Init", "Round", "Done"} /\ core.control \in Nat
      /\ block \in 1..Len(Blocks) + 1 /\ at \in 1..15
  BY DEF ProtocolInv, DriverOK
<1>3. at # 1 => block \in 1..Len(Blocks)
  <2>1. Len(Blocks) \in Nat
    BY BlocksAssumption
  <2>2. block # Len(Blocks) + 1 \/ at = 1
    BY DEF Contents
  <2> HIDE DEF Contents
  <2> QED BY <1>2, <2>1, <2>2
<1>4. /\ core.fsm = "Idle" => at \in 1..11
      /\ core.fsm \in {"Init", "Round"} => at = 11
      /\ core.fsm = "Done" => at \in 11..15 /\ core.control \in 0..3
  BY <1>2 DEF ProtocolInv, Filling, Running, Fetching
<1>5. at = 15 => core.fsm = "Done" /\ core.control = 3
  BY <1>2 DEF ProtocolInv, Fetching
<1>6. at = 15 /\ Access => core'.fsm = "Idle"
  <2>1. at = 15 /\ Access => ReadsCipher
    BY DEF ReadsCipher
  <2> QED BY <1>1, <1>5, <2>1 DEF Cycle
<1>7. block' = block \/ (at = 15 /\ Access)
  BY DEF Next, Wait, Start, Setup, Transfer, Complete, driver
<1> QED BY <1>1, <1>2, <1>3, <1>4, <1>5, <1>6, <1>7

LEMMA ContentsStep ==
  ASSUME ProtocolInv, Contents, TypeOK, Next PROVE Contents'
<1> USE Places
<1>1. block' = Len(Blocks) + 1 => at' = 1
  <2>1. CASE Wait \/ Start \/ Setup
    BY <2>1 DEF Wait, Start, Setup, driver, Contents
  <2>2. CASE Transfer
    <3>1. block <= Len(Blocks) /\ at \in 1..15
      BY <2>2 DEF Transfer, Access, ProtocolInv, DriverOK
    <3>2. CASE at = 15
      BY <2>2, <3>2 DEF Transfer, Complete, ReadsStatus
    <3>3. CASE at # 15
      <4>1. block' = block /\ Len(Blocks) \in Nat /\ block \in Int
        BY <2>2, <3>3, BlocksAssumption DEF Transfer, Complete, ProtocolInv, DriverOK
      <4> QED BY <3>1, <4>1
    <3> QED BY <3>2, <3>3
  <2> QED BY <2>1, <2>2 DEF Next
<1>2. /\ keyFifo \in Seq(Words) /\ plainFifo \in Seq(Words)
      /\ Len(keyFifo) <= Depth /\ Len(plainFifo) <= Depth
      /\ Content(keyFifo, Blocks[block].key, Popped)
      /\ Content(plainFifo, Blocks[block].plain, Popped)
  BY DEF TypeOK, Contents, Words
<1>3. /\ keyFifo' = FifoNext(keyFifo, WritesKey, KeyWord, Loading(core))
      /\ plainFifo' = FifoNext(plainFifo, WritesPlain, PlainWord, Loading(core))
  BY DEF PeripheralNext
<1>4. CASE core.fsm = "Idle"
  <2>1. Popped = 0 /\ Popped' = 0 /\ block' = block /\ Loading(core) = FALSE
    BY <1>4 DEF Popped, Loading, Cycle
  <2>2. WritesKey => /\ Len(keyFifo) < Depth /\ KeyWord \in Words
                     /\ KeyWord = Word(Blocks[block].key, Len(keyFifo) + 1 + 0)
    <3>1. SUFFICES ASSUME WritesKey
                   PROVE  /\ Len(keyFifo) < Depth /\ KeyWord \in Words
                          /\ KeyWord = Word(Blocks[block].key, Len(keyFifo) + 1 + 0)
      OBVIOUS
    <3>2. at \in {1, 3, 5, 7} /\ bus # "idle"
      BY <3>1 DEF WritesKey, Access
    <3>3. Len(keyFifo) = at \div 2
      BY <3>2 DEF ProtocolInv, Filling, Queued
    <3>4. at \div 2 < Depth /\ (at \div 2) + 1 + 0 = (at + 1) \div 2
      BY <3>2 DEF Depth
    <3>5. KeyWord \in Words
      <4>1. block \in 1..Len(Blocks) /\ at \in 1..15
        <5>1. block <= Len(Blocks)
          BY <3>2 DEF ProtocolInv, DriverOK
        <5> QED BY <3>2, <5>1
      <4> QED BY <3>2, <4>1, WordsTyped
    <3> QED BY <3>3, <3>4, <3>5 DEF KeyWord
  <2>3. WritesPlain => /\ Len(plainFifo) < Depth /\ PlainWord \in Words
                       /\ PlainWord = Word(Blocks[block].plain, Len(plainFifo) + 1 + 0)
    <3>1. SUFFICES ASSUME WritesPlain
                   PROVE  /\ Len(plainFifo) < Depth /\ PlainWord \in Words
                          /\ PlainWord = Word(Blocks[block].plain, Len(plainFifo) + 1 + 0)
      OBVIOUS
    <3>2. at \in {2, 4, 6, 8} /\ bus # "idle"
      BY <3>1 DEF WritesPlain, Access
    <3>3. Len(plainFifo) = (at - 1) \div 2
      BY <3>2 DEF ProtocolInv, Filling, Queued
    <3>4. (at - 1) \div 2 < Depth /\ ((at - 1) \div 2) + 1 + 0 = at \div 2
      BY <3>2 DEF Depth
    <3>5. PlainWord \in Words
      BY <3>2, WordsTyped
    <3> QED BY <3>3, <3>4, <3>5 DEF PlainWord
  <2>4. WritesKey \in BOOLEAN /\ WritesPlain \in BOOLEAN
    BY DEF WritesKey, WritesPlain, Access
  <2>5. Content(keyFifo', Blocks[block].key, 0)
    <3>1. CASE WritesKey
      <4>1. KeyWord \in Words /\ keyFifo' = FifoNext(keyFifo, TRUE, KeyWord, FALSE)
        BY <1>3, <2>1, <2>2, <2>4, <3>1
      <4> QED BY <1>2, <2>1, <2>2, <3>1, <4>1, QueueGains
    <3>2. CASE ~WritesKey
      <4>1. keyFifo' = FifoNext(keyFifo, FALSE, NoWord, FALSE) /\ NoWord \in Words
        <5>1. NoWord \in Words
          BY DEF NoWord, Words, Byte
        <5>2. FifoNext(keyFifo, FALSE, KeyWord, FALSE) = FifoNext(keyFifo, FALSE, NoWord, FALSE)
          BY DEF FifoNext, Pushed
        <5> QED BY <1>3, <2>1, <2>4, <3>2, <5>1, <5>2
      <4> QED BY <1>2, <2>1, <4>1, QueueGains
    <3> QED BY <3>1, <3>2
  <2>6. Content(plainFifo', Blocks[block].plain, 0)
    <3>1. CASE WritesPlain
      <4>1. PlainWord \in Words /\ plainFifo' = FifoNext(plainFifo, TRUE, PlainWord, FALSE)
        BY <1>3, <2>1, <2>3, <2>4, <3>1
      <4> QED BY <1>2, <2>1, <2>3, <3>1, <4>1, QueueGains
    <3>2. CASE ~WritesPlain
      <4>1. plainFifo' = FifoNext(plainFifo, FALSE, NoWord, FALSE) /\ NoWord \in Words
        <5>1. NoWord \in Words
          BY DEF NoWord, Words, Byte
        <5>2. FifoNext(plainFifo, FALSE, PlainWord, FALSE)
                = FifoNext(plainFifo, FALSE, NoWord, FALSE)
          BY DEF FifoNext, Pushed
        <5> QED BY <1>3, <2>1, <2>4, <3>2, <5>1, <5>2
      <4> QED BY <1>2, <2>1, <4>1, QueueGains
    <3> QED BY <3>1, <3>2
  <2> QED BY <1>1, <2>1, <2>5, <2>6 DEF Contents
<1>5. CASE core.fsm = "Init"
  <2>1. /\ core.control \in 0..3 /\ block' = block /\ Loading(core) = TRUE
        /\ WritesKey = FALSE /\ WritesPlain = FALSE /\ Popped = core.control
        /\ Len(keyFifo) = 4 - core.control /\ Len(plainFifo) = 4 - core.control
    BY <1>5 DEF Loading, WritesKey, WritesPlain, Popped, ProtocolInv, Running, Queued
  <2>2. keyFifo # << >> /\ plainFifo # << >>
    BY <2>1
  <2>3. /\ Content(keyFifo', Blocks[block].key, core.control + 1)
        /\ Content(plainFifo', Blocks[block].plain, core.control + 1)
    <3>1. core.control \in Nat
      BY <2>1
    <3> QED BY <1>2, <1>3, <2>1, <2>2, <3>1, QueueGives
  <2>4. CASE core'.fsm = "Init"
    <3>1. Popped' = core.control + 1
      BY <1>5, <2>4 DEF Popped, Cycle
    <3> QED BY <1>1, <2>1, <2>3, <3>1 DEF Contents
  <2>5. CASE core'.fsm # "Init"
    <3>1. Len(keyFifo') = 0 /\ Len(plainFifo') = 0
      BY <1>5, <2>1, <2>5 DEF Cycle
    <3> QED BY <1>1, <3>1 DEF Contents, Content
  <2> QED BY <2>4, <2>5
<1>6. CASE core.fsm \in {"Round", "Done"}
  <2>1. /\ ~WritesKey /\ ~WritesPlain
        /\ Len(keyFifo) = 0 /\ Len(plainFifo) = 0
    BY <1>6 DEF WritesKey, WritesPlain, ProtocolInv, Running, Fetching, Queued
  <2>2. Len(keyFifo') = 0 /\ Len(plainFifo') = 0
    BY <1>6, <2>1 DEF Cycle
  <2> QED BY <1>1, <2>2 DEF Contents, Content
<1> QED BY <1>4, <1>5, <1>6

LEMMA ComputedStep ==
  ASSUME ProtocolInv, Contents, Computed, TypeOK, Next PROVE Computed'
<1> USE Places
<1>1. core' = CoreNext(core, CoreEnable, Offered(plainFifo), Offered(keyFifo), ReadsCipher)
  BY DEF PeripheralNext
<1>2. CASE core.fsm = "Idle"
  <2>1. /\ core'.fsm \in {"Idle", "Init"} /\ core'.control = 0
        /\ core'.round = 1 /\ core'.rcon = {0} /\ core'.state = Zero /\ core'.key = Zero
    <3>1. core'.fsm \in {"Idle", "Init"} /\ core'.control = 0
      BY <1>2 DEF Cycle
    <3>2. /\ core'.round = RoundNext(core) /\ core'.rcon = {0}
          /\ core'.state = Zero /\ core'.key = Zero
      BY <1>1, <1>2 DEF CoreNext
    <3> QED BY <1>2, <3>1, <3>2 DEF RoundNext
  <2>2. Zero \in Text /\ 4 * 0 = 0
    BY DEF Zero, Text, Byte
  <2>3. \A x : Moved(Zero, x, 4 * 0) = Zero
    BY <2>2, MovedEnds
  <2> QED BY <2>1, <2>3 DEF Computed, Loaded
<1>3. CASE core.fsm = "Init"
  <2> DEFINE m == core.control
             plain == Blocks[block].plain
             key == Blocks[block].key
  <2>1. /\ m \in 0..3 /\ block' = block /\ Popped = m /\ block \in 1..Len(Blocks)
        /\ Len(keyFifo) = 4 - m /\ Len(plainFifo) = 4 - m
    BY <1>3 DEF Popped, ProtocolInv, Running, Queued
  <2>2. /\ core.round = 1 /\ core.rcon = {0}
        /\ Loaded(core.state, plain) /\ Loaded(core.key, key)
    BY <1>3 DEF Computed
  <2>3. Offered(plainFifo) = Word(plain, m + 1) /\ Offered(keyFifo) = Word(key, m + 1)
    <3>1. keyFifo # << >> /\ plainFifo # << >> /\ m \in Nat
      BY <2>1
    <3>2. /\ keyFifo \in Seq(Words) /\ plainFifo \in Seq(Words)
          /\ Content(keyFifo, key, m) /\ Content(plainFifo, plain, m)
      BY <2>1 DEF TypeOK, Contents, Words
    <3> HIDE DEF m, plain, key
    <3> QED BY <3>1, <3>2, QueueGives
  <2>4. /\ core'.state = Moved(Zero, Cells(plain), 4 * (m + 1))
        /\ core'.key = Moved(Zero, Cells(key), 4 * (m + 1))
    <3>1. /\ core'.state = Load(core.state, Word(plain, m + 1))
          /\ core'.key = Load(core.key, Word(key, m + 1))
      BY <1>1, <1>3, <2>3 DEF CoreNext, StateNext, KeyNext
    <3>2. /\ core.state = Moved(Zero, Cells(plain), 4 * m)
          /\ core.key = Moved(Zero, Cells(key), 4 * m)
      BY <2>2 DEF Loaded
    <3> HIDE DEF m, plain, key
    <3> QED BY <2>1, <3>1, <3>2, LoadMoves
  <2>5. core'.round = 1 /\ core'.rcon = {0}
    <3>1. ~ControlOverflows(core)
      BY <1>3 DEF ControlOverflows
    <3> QED BY <1>1, <1>3, <2>2, <3>1 DEF CoreNext, RoundNext
  <2>6. CASE m < 3
    <3>1. core'.fsm = "Init" /\ core'.control = m + 1
      BY <1>3, <2>6 DEF Cycle
    <3> QED BY <2>1, <2>4, <2>5, <3>1 DEF Computed, Loaded
  <2>7. CASE m = 3
    <3>1. core'.fsm = "Round" /\ core'.control = 0
      BY <1>3, <2>7 DEF Cycle
    <3> DEFINE texts == BlockTexts[block]
               keys == BlockKeys[block]
    <3>2. /\ Standard(texts, keys) /\ texts[0] = Cells(plain) /\ keys[0] = Cells(key)
          /\ Cells(plain) \in Text /\ Cells(key) \in Text
      BY <2>1, VectorStandard, VectorTyped, CellsTyped
    <3>3. core'.state = texts[0] /\ core'.key = keys[0]
      <4>1. 4 * (m + 1) = 16
        BY <2>7
      <4> HIDE DEF plain, key, texts, keys, m
      <4> QED BY <2>4, <3>2, <4>1, MovedEnds
    <3>4. (\A x : Moved(texts[0], x, 0) = texts[0]) /\ Moved(keys[0], keys[0], 0) = keys[0]
      <4> HIDE DEF plain, key, texts, keys
      <4> QED BY <3>2, MovedEnds
    <3>5. CountersAt'
      <4>1. Rcon[1] = {0}
        BY DEF Rcon
      <4> QED BY <2>5, <3>1, <4>1 DEF CountersAt
    <3>6. BlockTexts' = BlockTexts /\ BlockKeys' = BlockKeys
      BY DEF BlockTexts, BlockKeys, Evaluated
    <3>7. StateAt(texts, keys)'
      <4>1. 1 - 1 = 0
        OBVIOUS
      <4> QED BY <2>1, <2>5, <3>1, <3>3, <3>4, <3>6, <4>1 DEF StateAt
    <3>8. KeyAt(keys)'
      BY <2>1, <2>5, <3>1, <3>3, <3>4, <3>6 DEF KeyAt
    <3> QED BY <3>1, <3>5, <3>7, <3>8 DEF RoundsAt, Computed
  <2> QED BY <2>1, <2>6, <2>7
<1>4. CASE core.fsm = "Round"
  <2> SUFFICES ASSUME NEW b, b = block PROVE Computed'
    OBVIOUS
  <2>1. block' = b /\ b \in 1..Len(Blocks)
    BY <1>4
  <2>2. RoundsAt(BlockTexts[b], BlockKeys[b])
    BY <1>4 DEF Computed
  <2>3. /\ core'.fsm = "Round" => RoundsAt(BlockTexts[b], BlockKeys[b])'
        /\ core'.fsm = "Done" => core'.state = AddKey(BlockTexts[b][10], BlockKeys[b][10])
    BY <1>4, <2>1, <2>2, VectorStandard, RoundStep
  <2>4. core'.fsm = "Done" => core'.state = Cells(Blocks[b].cipher)
    BY <2>1, <2>3, VectorStandard
  <2>5. core'.fsm \in {"Round", "Done"}
    BY <1>4 DEF Cycle
  <2> QED BY <2>1, <2>3, <2>4, <2>5 DEF Computed
<1>5. CASE core.fsm = "Done"
  <2>1. core'.fsm \in {"Idle", "Done"}
    BY <1>5 DEF Cycle
  <2>2. core'.state = core.state
    <3>1. core.control < 16 /\ core.control # 16 /\ ~(core.control > 16)
      BY <1>5
    <3> QED BY <1>1, <1>5, <3>1 DEF CoreNext, StateNext
  <2> QED BY <1>5, <2>1, <2>2 DEF Computed
<1> QED BY <1>2, <1>3, <1>4, <1>5

LEMMA AnsweredStep ==
  ASSUME ProtocolInv, Contents, Computed, Answered, TypeOK, Next PROVE Answered'
<1> USE Places
<1>1. /\ fetched \in Seq(Words) /\ at \in 1..15
      /\ Len(fetched) = 4 * (block - 1) + (IF at \in 12..15 THEN at - 12 ELSE 0)
      /\ \A i \in 1..Len(fetched) :
           fetched[i] = Word(Blocks[((i - 1) \div 4) + 1].cipher, ((i - 1) % 4) + 1)
  <2>1. fetched \in Seq(Words)
    BY DEF TypeOK, Words
  <2>2. DOMAIN fetched = 1..Len(fetched)
    BY <2>1
  <2> QED BY <2>1, <2>2 DEF Answered, KnownAnswer, ProtocolInv, DriverOK
<1>2. CASE ~ReadsCipher
  <2>1. fetched' = fetched
    BY <1>2 DEF Next, Wait, Start, Setup, Transfer, Complete, driver
  <2>2. block' = block
    BY <1>1, <1>2 DEF Next, Wait, Start, Setup, Transfer, Complete, driver, ReadsCipher
  <2>3. at' = at \/ (at \in 1..11 /\ at' = at + 1)
    <3>1. CASE Wait \/ Start \/ Setup
      BY <3>1 DEF Wait, Start, Setup, driver
    <3>2. CASE Transfer
      <4>1. at \in 1..11
        BY <1>1, <1>2, <3>2 DEF Transfer, ReadsCipher
      <4>2. at' = at \/ at' = (at % 15) + 1
        BY <3>2 DEF Transfer, Complete
      <4> QED BY <4>1, <4>2
    <3> QED BY <3>1, <3>2 DEF Next
  <2>4. Len(fetched') = 4 * (block' - 1) + (IF at' \in 12..15 THEN at' - 12 ELSE 0)
    <3>1. (IF at' \in 12..15 THEN at' - 12 ELSE 0) = (IF at \in 12..15 THEN at - 12 ELSE 0)
      <4>1. CASE at' = at
        BY <4>1
      <4>2. CASE at \in 1..11 /\ at' = at + 1
        <5>1. ~(at \in 12..15) /\ (at' \in 12..15 => at' - 12 = 0)
          BY <4>2
        <5> QED BY <5>1
      <4> QED BY <2>3, <4>1, <4>2
    <3> QED BY <1>1, <2>1, <2>2, <3>1
  <2> QED BY <2>1, <2>4 DEF Answered, KnownAnswer
<1>3. CASE ReadsCipher
  <2> DEFINE n == Len(fetched)
             word == Cipher(core)
             longer == Append(fetched, word)
             b == block
             a == at - 12
  <2>1. /\ at \in 12..15 /\ core.fsm = "Done" /\ core.control = a /\ a \in 0..3
        /\ b \in 1..Len(Blocks) /\ Transfer
    <3>1. at \in 12..15 /\ Access
      BY <1>3 DEF ReadsCipher
    <3>2. core.fsm = "Done" /\ core.control = a /\ a \in 0..3
      BY <3>1 DEF ProtocolInv, Fetching
    <3>3. Transfer
      BY <3>1 DEF Next, Access, Wait, Start, Setup
    <3> QED BY <3>1, <3>2, <3>3
  <2>2. fetched' = longer /\ at' = (IF at = 15 THEN 1 ELSE at + 1)
        /\ block' = IF at = 15 THEN b + 1 ELSE b
    BY <1>3, <2>1 DEF Transfer, Complete, ReadsStatus
  <2>3. word = Word(Blocks[b].cipher, a + 1)
    <3>1. core.state = Cells(Blocks[b].cipher)
      BY <2>1 DEF Computed
    <3>2. ASSUME NEW i \in 1..4
          PROVE  core.state[4 * (core.control % 4) + i - 1] = Blocks[b].cipher[4 * ((a + 1) - 1) + i]
      <4>1. /\ 4 * (core.control % 4) + i - 1 \in Cell
            /\ (4 * (core.control % 4) + i - 1) + 1 = 4 * ((a + 1) - 1) + i
        BY <2>1 DEF Cell
      <4> HIDE DEF b, a
      <4> QED BY <3>1, <4>1 DEF Cells
    <3> HIDE DEF b, a
    <3> QED BY <3>2 DEF Cipher, Word
  <2>4. n \in Nat /\ n = 4 * (b - 1) + a /\ b \in Nat
    BY <1>1, <2>1
  <2>5. (n \div 4) + 1 = b /\ (n % 4) + 1 = a + 1
    <3>1. n = 4 * (b - 1) + a /\ a \in 0..3 /\ b - 1 \in Int /\ 4 \in Nat /\ 4 > 0 /\ a \in 0..4 - 1
      BY <2>1, <2>4
    <3> HIDE DEF n, a, b
    <3>2. n \div 4 = b - 1 /\ n % 4 = a
      BY <3>1, DivUnique
    <3> QED BY <2>4, <3>2
  <2>6. Len(longer) = n + 1 /\ longer[n + 1] = word /\ \A i \in 1..n : longer[i] = fetched[i]
        /\ DOMAIN longer = 1..n + 1
    <3>1. fetched \in Seq(Words)
      BY <1>1
    <3>2. Cipher(core) \in Words
      <4>1. Blocks[b].cipher \in [1..16 -> Byte]
        BY <2>1, VectorTyped
      <4>2. \A j \in 1..4 : 4 * ((a + 1) - 1) + j \in 1..16
        BY <2>1
      <4> HIDE DEF a, b
      <4> QED BY <2>3, <4>1, <4>2 DEF Word, Words
    <3> QED BY <3>1, <3>2
  <2>7. \A i \in 1..n + 1 :
          longer[i] = Word(Blocks[((i - 1) \div 4) + 1].cipher, ((i - 1) % 4) + 1)
    <3>1. \A i \in 1..n : fetched[i] = Word(Blocks[((i - 1) \div 4) + 1].cipher, ((i - 1) % 4) + 1)
      BY <1>1
    <3> HIDE DEF n, longer, word, a, b
    <3>2. (n + 1) - 1 = n /\ \A i \in 1..n + 1 : i \in 1..n \/ i = n + 1
      BY <2>4
    <3> QED BY <2>3, <2>5, <2>6, <3>1, <3>2
  <2>8. KnownAnswer'
    <3>1. fetched' = longer /\ DOMAIN longer = 1..n + 1
      BY <2>2, <2>6
    <3> HIDE DEF longer, n
    <3>2. \A i \in DOMAIN fetched' :
            fetched'[i] = Word(Blocks[((i - 1) \div 4) + 1].cipher, ((i - 1) % 4) + 1)
      BY <2>7, <3>1
    <3> QED BY <3>2 DEF KnownAnswer
  <2>9. Len(fetched') = 4 * (block' - 1) + (IF at' \in 12..15 THEN at' - 12 ELSE 0)
    <3>1. Len(fetched') = n + 1
      BY <2>2, <2>6
    <3>2. n + 1 = 4 * (block' - 1) + (IF at' \in 12..15 THEN at' - 12 ELSE 0)
      <4> HIDE DEF n
      <4> QED BY <2>1, <2>2, <2>4
    <3> QED BY <3>1, <3>2
  <2> QED BY <2>8, <2>9 DEF Answered
<1> QED BY <1>2, <1>3

LEMMA CipherNext == CipherInv /\ [Next]_vars => CipherInv'
<1> SUFFICES ASSUME CipherInv, [Next]_vars PROVE CipherInv'
  OBVIOUS
<1>1. ProtocolInv' /\ TypeOK'
  BY NextInv, TypesStep DEF CipherInv
<1>2. CASE Next
  BY <1>1, <1>2, ContentsStep, ComputedStep, AnsweredStep DEF CipherInv
<1>3. CASE UNCHANGED vars
  <2>1. core' = core /\ UNCHANGED << keyFifo, plainFifo, block, at, fetched >>
    BY <1>3 DEF vars, regs, driver
  <2>2. Contents'
    BY <2>1 DEF CipherInv, Contents, Popped
  <2>3. Computed'
    BY <2>1 DEF CipherInv, Computed, Loaded, RoundsAt, CountersAt, StateAt, KeyAt
  <2>4. Answered'
    BY <2>1 DEF CipherInv, Answered, KnownAnswer
  <2> QED BY <1>1, <2>2, <2>3, <2>4 DEF CipherInv
<1> QED BY <1>2, <1>3

----------------------------------------------------------------------------
(* What the runs check, for every sequence of vectors.                     *)

\* The firmware under test takes the steps of its own driver; the other one rests.
LEMMA JobSteps ==
  /\ JobsInit => CipherInv
  /\ CipherInv /\ [JobsNext]_bothVars => CipherInv'
<1>1. JobsInit => CipherInv
  BY CipherInit DEF JobsInit
<1>2. [JobsNext]_bothVars => [Next]_vars
  BY DEF JobsNext, bothVars
<1> QED BY <1>1, <1>2, CipherNext

\* The 21-cycle schedule is the standard's: at the start of every round the state
\* is the text of FIPS-197, the first word of the key register is the round key's, and
\* the state the core stops with is the ciphertext - for every key and every text.
THEOREM RoundsCorrect == JobsSpec => []RoundsMatchStandard
<1>1. CipherInv => RoundsMatchStandard
  <2> SUFFICES ASSUME CipherInv PROVE RoundsMatchStandard
    OBVIOUS
  <2>1. core.fsm \in {"Round", "Done"} => block \in 1..Len(Blocks)
    <3>1. /\ core.fsm \in {"Round", "Done"} => at # 1
          /\ block \in 1..Len(Blocks) + 1 /\ (block = Len(Blocks) + 1 => at = 1)
      BY DEF CipherInv, ProtocolInv, DriverOK, Filling, Contents
    <3>2. Len(Blocks) \in Nat
      BY BlocksAssumption
    <3> QED BY <3>1, <3>2
  <2> DEFINE r == core.round
             texts == BlockTexts[block]
             keys == BlockKeys[block]
  <2>2. ASSUME core.fsm = "Round", core.control = 0
        PROVE  core.state = texts[r - 1] /\ \A n \in 0..3 : core.key[n] = keys[r - 1][n]
    <3>1. RoundsAt(texts, keys) /\ r \in 1..11
      BY <2>2 DEF CipherInv, Computed, RoundsAt, CountersAt
    <3>2. texts[r - 1] \in Text /\ keys[r - 1] \in Text
      BY <2>1, <2>2, <3>1, VectorStandard, StandardRounds
    <3>3. core.state = texts[r - 1]
      <4>1. core.state = Moved(texts[r - 1], Summed(r, texts[r - 1], keys[r - 1]), 0)
        BY <2>2, <3>1 DEF RoundsAt, StateAt
      <4> QED BY <3>2, <4>1, MovedEnds
    <3>4. core.key = IF r = 1 THEN Moved(keys[0], keys[0], 0)
                     ELSE Passing(keys[r - 2], keys[r - 1], 0)
      BY <2>2, <3>1 DEF RoundsAt, KeyAt
    <3>5. ASSUME NEW n \in 0..3 PROVE core.key[n] = keys[r - 1][n]
      <4>1. n \in Cell /\ n + 0 = n /\ n < 16 /\ n < 4
        BY DEF Cell
      <4>2. CASE r = 1
        BY <3>4, <4>1, <4>2 DEF Moved
      <4>3. CASE r # 1
        BY <3>4, <4>1, <4>3 DEF Passing
      <4> QED BY <4>2, <4>3
    <3> QED BY <3>3, <3>5
  <2>3. core.fsm = "Done" => core.state = AddKey(texts[10], keys[10])
    BY <2>1, VectorStandard DEF CipherInv, Computed
  <2> QED BY <2>2, <2>3 DEF RoundsMatchStandard
<1> QED BY <1>1, JobSteps, PTL DEF JobsSpec

\* The known-answer test of aes-test passes: for every vector that is AES, and whatever
\* the CPU's delays, the words the driver fetches are those of the ciphertext.
THEOREM AnswersKnown == JobsSpec => []KnownAnswer
<1>1. CipherInv => KnownAnswer
  BY DEF CipherInv, Answered
<1> QED BY <1>1, JobSteps, PTL DEF JobsSpec

=============================================================================
