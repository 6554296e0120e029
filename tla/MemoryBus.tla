----------------------------- MODULE MemoryBus -----------------------------
(***************************************************************************)
(* The three memories that answer to the pipelined memory bus: the block   *)
(* RAM of the simulation, with its initial content from a file, the ECP5's *)
(* thirty-two memories of one bit, and the ASIC's SRAM macro.  A step is a *)
(* clock cycle, with any command or none.                                  *)
(***************************************************************************)
EXTENDS Integers, FiniteSets

CONSTANTS
  Addresses,   \* addresses of words, 0..n
  Lanes,       \* bytes of a word, 0..n (four in the code)
  Byte,        \* values of a byte, among them 0
  Files        \* initial contents: functions from 0..n to Byte

VARIABLES
  kind,        \* "ram", "ecp5" or "asic"
  mem,         \* the words
  rdata,       \* the memory's output register
  rspData,     \* RegNext of it: io.bus.rsp.data
  valids,      \* the two registers of Delay; the second one is io.bus.rsp.valid
  model,       \* history: the words as the commands so far leave them
  promised     \* history: what the reads of the last two cycles have to return

memoryRegisters == << mem, rdata, rspData, valids >>
memoryVars == << kind, memoryRegisters, model, promised >>

Word == [Lanes -> Byte]
Command == [valid : BOOLEAN, write : BOOLEAN, address : Addresses, data : Word, mask : SUBSET Lanes]

\* What a read that no one sent has to return.
Nothing == << >>

Masked(word, cmd) == [l \in Lanes |-> IF l \in cmd.mask THEN cmd.data[l] ELSE word[l]]

----------------------------------------------------------------------------
\* The file is as long as it is, the rest of the words is zero, and the bytes of
\* a word are in the file from the lowest to the highest.
Loaded(file) ==
  [a \in Addresses |-> [l \in Lanes |->
    IF a * Cardinality(Lanes) + l \in DOMAIN file THEN file[a * Cardinality(Lanes) + l] ELSE 0]]

Fires(cmd) == cmd.valid                                   \* cmd.ready is True
Reads(cmd) == Fires(cmd) /\ ~cmd.write

\* The SRAM is always enabled and writes whatever the bus's write line says.
Writes(cmd) == cmd.write /\ (kind = "asic" \/ cmd.valid)

\* What the output register may hold after the cycle.  A RAM that is written may
\* give out the old or the new word (SpinalHDL's default for a read under a write);
\* the SRAM keeps its last one.
Outputs(cmd) ==
  IF Writes(cmd)
  THEN IF kind = "asic" THEN {rdata} ELSE {mem[cmd.address], Masked(mem[cmd.address], cmd)}
  ELSE IF kind = "asic" \/ cmd.valid THEN {mem[cmd.address]} ELSE {rdata}

OneCycle(cmd) == << Reads(cmd), Reads(cmd) >>             \* mutant
TwoCycles(cmd) == << Reads(cmd), valids[1] >>

WritesWord(cmd) ==                                        \* mutant
  IF Writes(cmd) THEN [mem EXCEPT ![cmd.address] = cmd.data] ELSE mem
MemNext(cmd) == IF Writes(cmd) THEN [mem EXCEPT ![cmd.address] = Masked(@, cmd)] ELSE mem

MemoryInit ==
  /\ kind \in {"ram", "ecp5", "asic"}
  /\ IF kind = "ram" THEN \E file \in Files : mem = Loaded(file)
     ELSE mem \in [Addresses -> [Lanes -> {0}]]
  /\ rdata = [l \in Lanes |-> 0] /\ rspData = rdata /\ valids = << FALSE, FALSE >>
  /\ model = mem /\ promised = << Nothing, Nothing >>

Cycle(cmd) ==
  /\ mem' = MemNext(cmd)
  /\ rdata' \in Outputs(cmd)
  /\ rspData' = rdata
  /\ valids' = TwoCycles(cmd)
  /\ model' = IF Fires(cmd) /\ cmd.write
              THEN [model EXCEPT ![cmd.address] = Masked(@, cmd)] ELSE model
  /\ promised' = << IF Reads(cmd) THEN model[cmd.address] ELSE Nothing, promised[1] >>
  /\ UNCHANGED kind

\* The ASIC's bus is taken to keep the write line low between commands.
Drives(cmd) == kind = "asic" /\ cmd.write => cmd.valid

MemoryNext == \E cmd \in Command : Drives(cmd) /\ Cycle(cmd)

MemorySpec == MemoryInit /\ [][MemoryNext]_memoryVars

----------------------------------------------------------------------------
\* Reads may follow each other, and writes, in every cycle: each one is answered
\* two cycles later, in order, with the bytes that were last written to its
\* address before it, whatever is written in the meantime; and nothing else is
\* answered.  All three memories behave alike, the ASIC's as long as the write
\* line of its bus is low in cycles without a command.
ReadsLastWritten ==
  /\ valids[2] <=> promised[2] # Nothing
  /\ valids[2] => rspData = promised[2]
=============================================================================
