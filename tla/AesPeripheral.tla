--------------------------- MODULE AesPeripheral ---------------------------
(***************************************************************************)
(* The AES peripheral of AESBlackbox.scala (status and control registers,  *)
(* two queues of four words, the core of module Aes) and its driver aes.h  *)
(* with the known-answer test of aes-test's main.c.                        *)
(*                                                                         *)
(* A step is a clock cycle.  A bus access takes a set-up cycle and an      *)
(* access cycle; between two accesses the CPU may take any number of       *)
(* cycles.  "at" is the driver's next access: 1 to 8 load key and          *)
(* plaintext alternately, 9 and 10 are the read and the write of           *)
(* CTRL |= 1, 11 polls STATUS, 12 to 15 fetch the ciphertext.              *)
(***************************************************************************)
EXTENDS Aes

CONSTANT Blocks    \* the test vectors, a sequence of [key, plain, cipher]

ASSUME BlocksAssumption ==
  Blocks \in Seq([key : [1..16 -> Byte], plain : [1..16 -> Byte], cipher : [1..16 -> Byte]])

VARIABLES
  core,                   \* the registers of AES.v
  enable, done,           \* the peripheral's own two flags
  keyFifo, plainFifo,     \* StreamFifo(Bits(32 bits), 4)
  block, at,              \* the driver's loop counter and its next access
  bus,                    \* what the bus does in this cycle: idle, setup, access
  ctrl,                   \* the value of CTRL in the CPU's register
  fetched                 \* the words AES_read has fetched, for all blocks

regs == << core, enable, done, keyFifo, plainFifo >>
driver == << block, at, bus, ctrl, fetched >>
vars == << regs, driver >>

Depth == 4
NoWord == [j \in 1..4 |-> {}]

----------------------------------------------------------------------------
(* The driver's accesses.                                                  *)

Access == bus = "access"
WritesKey == Access /\ at \in {1, 3, 5, 7}
WritesPlain == Access /\ at \in {2, 4, 6, 8}
ReadsCtrl == Access /\ at = 9
WritesCtrl == Access /\ at = 10
ReadsStatus == Access /\ at = 11
ReadsCipher == Access /\ at \in 12..15

KeyWord == Word(Blocks[block].key, (at + 1) \div 2)
PlainWord == Word(Blocks[block].plain, at \div 2)

\* CTRL is write-only: reading it gives 0, and the |= turns that into 1.
CtrlRead == {}
MasksValue(value) == value \cap {0}                      \* mutant
CtrlValue(value) == value \cup {0}

----------------------------------------------------------------------------
(* The peripheral.                                                         *)

CoreEnable == enable /\ ~Done(core)

KeepsEnable == IF WritesCtrl THEN 0 \in ctrl ELSE enable  \* mutant

\* A write of the bus comes last in the elaboration order and wins.
EnableNext == \/ WritesCtrl /\ 0 \in ctrl
              \/ ~WritesCtrl /\ enable /\ ~Done(core)
DoneNext == ~CoreEnable /\ (Done(core) \/ done)

\* A flow becomes a stream that nobody waits for: a word for a full queue is lost.
Pushed(q, push, word) == IF push /\ Len(q) < Depth THEN << word >> ELSE << >>
FifoNext(q, push, word, pop) ==
  (IF pop /\ q # << >> THEN Tail(q) ELSE q) \o Pushed(q, push, word)
Offered(q) == IF q = << >> THEN NoWord ELSE Head(q)

PeripheralNext ==
  /\ core' = CoreNext(core, CoreEnable, Offered(plainFifo), Offered(keyFifo), ReadsCipher)
  /\ enable' = EnableNext
  /\ done' = DoneNext
  /\ keyFifo' = FifoNext(keyFifo, WritesKey, KeyWord, Loading(core))
  /\ plainFifo' = FifoNext(plainFifo, WritesPlain, PlainWord, Loading(core))

----------------------------------------------------------------------------
(* The driver.                                                             *)

Init ==
  /\ core = Reset
  /\ enable = FALSE /\ done = FALSE
  /\ keyFifo = << >> /\ plainFifo = << >>
  /\ block = 1 /\ at = 1 /\ bus = "idle" /\ ctrl = {} /\ fetched = << >>

\* What the access of this cycle does to the driver.
Complete ==
  /\ at' = IF ReadsStatus /\ ~done THEN at ELSE (at % 15) + 1
  /\ block' = IF at = 15 THEN block + 1 ELSE block
  /\ ctrl' = IF ReadsCtrl THEN CtrlValue(CtrlRead) ELSE ctrl
  /\ fetched' = IF ReadsCipher THEN Append(fetched, Cipher(core)) ELSE fetched

\* The CPU is busy with something else.
Wait ==
  /\ bus = "idle"
  /\ UNCHANGED driver

Start ==
  /\ bus = "idle" /\ block <= Len(Blocks)
  /\ bus' = "setup"
  /\ UNCHANGED << block, at, ctrl, fetched >>

Setup ==
  /\ bus = "setup"
  /\ bus' = "access"
  /\ UNCHANGED << block, at, ctrl, fetched >>

\* The next access may follow at once.
Transfer ==
  /\ Access
  /\ Complete
  /\ bus' = "idle" \/ (bus' = "setup" /\ block' <= Len(Blocks))

Next == (Wait \/ Start \/ Setup \/ Transfer) /\ PeripheralNext

\* The clock runs and the CPU gets to its next access.
Spec == Init /\ [][Next]_vars /\ WF_driver(Start \/ Setup \/ Transfer)

----------------------------------------------------------------------------
(* Properties.                                                             *)

\* The registers have their widths, the driver its range.
TypeOK ==
  /\ core \in CoreType
  /\ enable \in BOOLEAN /\ done \in BOOLEAN
  /\ \A q \in {keyFifo, plainFifo} : q \in Seq([1..4 -> Byte]) /\ Len(q) <= Depth
  /\ block \in 1..Len(Blocks) + 1 /\ at \in 1..15
  /\ bus \in {"idle", "setup", "access"}
  /\ ctrl \in Byte
  /\ fetched \in Seq([1..4 -> Byte])

\* The core takes a word from each queue in every cycle of sInit without looking
\* at "valid" (AES.v:353, 455-471): the driver must have loaded the whole block
\* before it starts the core, and the next block must find both queues empty.
LoadsWholeBlock ==
  /\ core.fsm = "Init" =>
       \A q \in {keyFifo, plainFifo} : Len(q) = Depth - core.control
  /\ core.fsm \in {"Round", "Done"} => keyFifo = << >> /\ plainFifo = << >>

\* A poll that reads 1 means the answer to the command just given is there,
\* complete and unread: the flag of the block before has been cleared by then,
\* though it is cleared only a cycle after the core was enabled.  The driver takes
\* the words of the ciphertext only while the core offers them, and a command is
\* given only to a core that is idle: it is not lost.
HandshakeKept ==
  /\ ReadsStatus /\ done => Done(core) /\ core.control = 0
  /\ ReadsCipher => Done(core) /\ core.control = at - 12
  /\ enable /\ core.fsm = "Idle" => at = 11
  /\ WritesCtrl => core.fsm = "Idle"

\* The known-answer test of aes-test never reports a failure (main.c:109).
KnownAnswer ==
  \A i \in DOMAIN fetched :
    fetched[i] = Word(Blocks[((i - 1) \div 4) + 1].cipher, ((i - 1) % 4) + 1)

=============================================================================
