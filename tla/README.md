# Verification of the VE-HEP hardware security module

This directory holds TLA+ specifications of the VE-HEP HSM (a VexRiscv system
on chip with crypto accelerators, and the firmware that makes it a TPM), TLC
configurations that check them on small instances, and TLAPS proofs of what
holds for every value of the constants. Paths below are relative to the root of
the repository (`src/` in `PROJECT.json` stands for it).

Run TLC with `tlc -config <run>.cfg <module>.tla` and the proofs with
`tlapm <module>.tla`; `PROJECT.json` lists every run, mutant, finding, hazard and
theorem, and which lines each definition stands for.

## 1. The system and its parts

| | Component | State it keeps | Operations | Interacts with |
|---|---|---|---|---|
| A | TIS front end, `src/main/c/hsm/src/{tis,main}.c` | the shared struct `g_TIS` (status bytes, buffer, buffer pointer, parser), the static value of `fixSTS`, main's program counter | interrupt handler `spi1_isr`, `fixSTS`, `TIS_init`, main loop | SPI slave, TPM library (external), the host |
| B | Multiply-accumulate unit `MulAcc.scala` and its pipeline plugin `MulAccPlugin.scala` | accumulator memory, FSM, counter, carry; a queue of products | operand stream, read-out, reset | CPU pipeline |
| C | AES peripheral `AESBlackbox.scala`, `AES.v`, driver `aes-test` | command flags, queues of words, registers of the core | register accesses, rounds | bus, driver |
| D | Masked AES `AESMaskedBlackbox.scala`, `AES_Masked.v`, driver `aes-masked-test` | two shares of text and key, three queues, the driver's random block | the same, and a queue of random words | bus, driver, ChaCha |
| E | Keccak of `aes-masked-test`, `fips202.c`, `keccakf1600.c` | 25 lanes, the offset in the 26th word | absorb, finalize, squeeze, one-call hashes | its callers |
| F | Comba multiplier `CombaPlugin.scala`, `multest` | 72-bit accumulator | MUL, ADD, SUB, SHIFT, RISC-V multiplications | CPU pipeline, `mul_comba`, `main` |
| G | SIKE P434 arithmetic and printing linked to `multest` | none between calls | field operations, inversion chains, `print_int` | its callers |
| H | Stream converter, `examples/SlowdownTest.scala` | buffered words and a counter | push, pop, reset | none |
| I | Memories, `PQVexRiscvVEHEP.scala`, `SramModule.scala`, `pqvexriscv/.../PQVexRiscv*.scala` | words, output registers, two valid bits | read, masked write | memory bus |
| J | SPI over TCP bridge of the simulation, `SpiTcp.scala` | the two streams of the current connection | accepting thread, byte exchange loop | SPI slave, test scripts |
| K | Console of the simulation, `HSMSim.scala`, `uart.h` | bit timers, the byte in hand, time to the end | print, type, exit | UART, terminal |
| L | SPI slave, UART and other peripherals with their C headers | receive and transmit queues | register reads and writes | A, J, K, bus |
| M | Test programs `hello_world`, `hello_world_spi`, `aes-test`, `aes-masked-test`, `multest`, `ecp5hw` | their place in `main`, two readings of the cycle counter, two pins | print, measure, end the simulation | C to G, K |
| N | SoC tops, board tops, TRNG, pseudo terminal, Rust firmware, library stubs, configuration | | wiring | all |

### What is hard, and what makes each part correct

* **A** An interrupt handler runs against a polling loop with no lock; both read,
  modify and write the status bytes, and the host sees intermediate states. The
  parser must stay in step with the byte stream and each byte the host clocks must
  have a reply staged; the buffer pointer follows the host through a command and
  its response; what is executed is what the host submitted, once; the status bits
  are true when read; a host that follows the protocol gets its answers.
* **B**, **C**, **D** are started by one actor and polled by another over several
  cycles; a command written at the wrong moment is lost or answered with an old
  result, and a pipeline stage may hold an instruction that is not valid. The
  accumulator must end up with the sum of all products; a driver must read the
  result of its own command; the queues must never lose a word. In D the share
  a word belongs to depends on how full its queue is, and random words must be
  there when needed and never be used twice.
* **E** keeps an offset across calls, with a different meaning while absorbing and
  while squeezing: however a message and an output are cut into calls, the bytes
  must be those of the standard.
* **F**, **G** A carry that occurs for one operand in thousands; representatives
  above the prime; accumulators that are not clean; long unrolled tables.
* **H**, **I** A word lost or repeated under back pressure, a reset in the middle,
  an answer in the wrong cycle.
* **J** replaces the streams of a connection from another thread while a byte is
  exchanged: an answer must not reach a client before it asked, and the last
  client must be served.
* **K** Two clocks that differ by 4%, and an end of the simulation on a timer.
* **M** A 64-bit time read in two halves while it goes on, and a verdict taken from
  pins one of which has no defined value at the start.

## 2. Modules and runs

| Part | Modules | Abstract specification or reference | Runs | Proofs |
|---|---|---|---|---|
| A | `Tis`, `MCTis` | `TpmService` (refinement) | `tis_polling`, `tis_retry`, `tis_lost_go`, `tis_stale_avail` | `TisProofs` |
| B | `MulAcc`, `MulAccPlugin` | the test bench's one-cycle accumulator; the program order | `mulacc`, `plugin`, `plugin_adjacent` | `MulAccProofs`, `Inductions` |
| C, D | `Aes`, `AesPeripheral`, `AesMasked`, `MCAes` | FIPS-197 (`Fips197`) | `aes` | `AesRounds`, `AesProofs`, `AesMaskedProofs` |
| E | `Fips202`, `Fips202Inc`, `KeccakF1600`, `KeccakStandard`, `MCKeccak` | `HashService` (refinement) | `keccak`, `keccak_stack` | |
| F, G | `Comba`, `FpGeneric`, `Fpx`, `FieldCalls`, `P434`, `PrintInt`, `MCMultest` | RISC-V products, multiplication by columns; `FieldService` (refinement) | `multest` | `MultestProofs` |
| H | `StreamSlowdown`, `MCPlatform` | `Batcher` (refinement) | `platform` | `PlatformProofs` |
| I, J, K | `MemoryBus`, `SpiTcp`, `SimConsole`, `MCPlatform` | a memory of atomic words; what was sent | `platform` | `PlatformProofs` |
| M | `Programs`, `MCMultest` | the time that passed | `multest` | `MultestProofs` |

The number of runs is kept small on purpose: a run is a question asked of a
program or of a group of parts. Where a run covers parts that share no state
(`aes`, `multest`, `keccak`, `platform`), an MC module takes the variables of all of
them and a behaviour does one of the jobs, the variables of the others staying at
one initial value; the fairness conditions are then those of the job's own steps.

Bytes are sets of the numbers of their one bits in `Tis`, `Aes`, `AesMasked`,
`Fips202` and `SimConsole`: or, and not, exclusive or and single bits are then
operations on sets.

## 3. The TIS front end: `Tis`, `TpmService`, `MCTis`, `TisProofs`

`Tis` models `spi1_isr`, `read_write_spi`, `fixSTS`, `TIS_init`, `irqCallback`
and `main`, with the SPI slave's two queues and a host.

**State.** The fields of `g_TIS` keep their names. `pc` is main's position,
`value` the static variable of `fixSTS`, `reg` what main has loaded and not yet
stored, `idx` the status byte in hand, `call` the arguments of the running
`fixSTS`. `rxne` says that a byte is waiting for the handler, `tx` holds staged
replies. The host's `phase`, transaction `txn` and position `pos` are what its
scripts do: probe, write commandReady, poll, load the command, write tpmGo,
poll, fetch the response. `executed` and `answers` are histories.

**Values.** A byte is a set: the one bits of a header, address or status byte, or a
singleton that names byte *i* of command or response *j*. `|`, `& ~` and the shifts of
`bytesToU32` and of the address then are unions, differences and shifted unions, and a status byte
read as data (or the reverse) is visible as such. The handler gets no more than the byte: it
takes the length and the direction from the bits of whatever it holds for a header
(`LengthOf`) and shifts three bytes into an address, which the switch compares with those of the
registers (`RegisterAt`). `InFrame` says that it finds what the host meant. Only the bits of
command bytes are not modelled; one that is taken for a header reads as a write of one byte.

**Atomicity.** The interrupt handler runs with interrupts disabled and is one
action with four cases (trailing byte, header, address, payload). main is
interruptible everywhere, so each of its accesses to the shared struct is an
action: each status byte that `fixSTS` loads or stores, the load and the store
of `sts[0] &= ~TPM_GO`, each reset at the end of a command, and each store of the
`TIS_init` that refuses an oversized command (`TISInit`: ten actions, one per line
`tis.c:15-21`, 24 and 25, and one per byte of the `memset` at line 23). `ExecuteCommand` is
one step: nothing it works on is touched by the handler while the host polls.
The compiler may load the four status bytes of `bytesToU32` in any order; the
model takes the order in which they are written down.

**The host** clocks a byte only when the previous one has been handled. That is
what the simulation's bridge does (`SpiTcp.scala:36` waits 200 SPI periods
between looks at the stream); a host that outruns the handler loses bytes in
the SPI slave, which is outside this module.

**Abstract specification.** `TpmService` knows three sequences: commands
submitted, executed and answered. `ImplementsService` maps `submitted` to the
commands whose tpmGo the handler has accessed; the other two are the histories.

### Runs

| Run | Host | Shows |
|---|---|---|
| `tis_polling` | one-byte status accesses, three commands of 3 bytes in pieces of 2 | all invariants, `BackToReady`, and the refinement of `TpmService` with its progress |
| `tis_retry` | four-byte status accesses, up to two repeated tpmGo, the second of three commands oversized | `ServiceSafety` and `NeverExecutesOversized`: until the refusal nothing else is executed or answered, the oversized command never is, and after it nothing at all, though progress is not guaranteed |
| `tis_lost_go` | four-byte status writes | finding: the handler erases a tpmGo with the last byte of the same write (`GoExecutes` is violated) |
| `tis_stale_avail` | one-byte accesses | finding: `fixSTS` sets dataAvail again after the handler cleared it (`NoLeftoverData` is violated) |

**Bounds.** `NumCmds = 3`: the state main leaves behind after one command meets
the next, and the state after the second is compared with the state after the
first. `Chunk = 2` of 3 bytes gives a transaction that ends with the data and
one that does not. Main's steps and the handler
interleave freely, so every point of a transaction meets every point of
`fixSTS` and of `TIS_init`. `MaxPolls` is 0 (no limit) but in `tis_retry`, where the host
gives up after two repeated polls: with one reply byte too many after every refusal the queue
of staged bytes would grow without end. The buffer there is longer than the commands, so
that bytes stored behind a refused command fit; `AccessFifo` drops a byte stored past the
buffer, which happens in no run.

**After a refusal** the parser may stay out of step: when an address byte is handled between
`nbytes = 0` and `addrbytes = 0` it is lost, and the handler takes later bytes of the stream
for headers, the address byte `0xD4` for a read of 21 bytes among them. Status reads then
return bytes other than the one asked for; the host can see stsValid and dataAvail in them
(in `sts[1]`, `0xff`), fetch garbage and take it for its answer. So the refinement of
`TpmService` is false from there on, and `ServiceSafety` says what is left: a step is one
of the service's, or a command was refused (`Refused`) and the step executes nothing. Within
the bounds the host of `tis_retry` goes on to its third command and polls for
commandReady, but loads nothing more.

**Fairness.** `WF(Isr)`: an interrupt that stays pending is taken, since main
enables interrupts and never disables them. `WF(Main)`: the loop never blocks.
`WF(Host)`: a host that waits keeps polling. No strong fairness is used.

### Proofs (`TisProofs`)

The first theorems need no assumption about the host beyond the ranges of the constants:

* `TypeCorrect`: `Spec => []TypeOK`, with and without oversized commands.
* `FramingCorrect` and `RepliesStaged`: `Spec => []InFrame` and `[]ReplyStaged` when no
  command is oversized. The inductive invariant `FrameInv` adds `TypeOK` (the counters'
  ranges) and `NoReinit` (TIS_init is not reached again). `InFrame` is stated
  for the number of bytes *handled*, not clocked, which makes it inductive: the
  proof goes through the four cases of the handler, main's steps (which touch
  none of the variables), the clock (which changes no handled count) and the
  host's turn (after which the count is 0).
  With oversized commands the statement is false: TIS_init resets the parser in
  the middle of the host's stream.

The second part of the module proves what `tis_polling` and `tis_retry` check, for every length of
buffer, command, response and transaction, every number of commands, polls and repeated
tpmGo, and every interleaving: `FifoFollowsHost`, `CommandsIntact`, `ReadyMeansIdle`,
`DataStaysAvailable`, the step refinement `ServiceIsSafe` (`Spec => ServiceSafety`, that is
`TpmService` without its fairness until a command is refused), and `OversizedNeverExecuted`. They rest on one
inductive invariant, `IInv == Normal \/ Refusing` (`ExchangeInvariant`).

* `Normal` relates the place of the host (the command not submitted yet, submitted,
  its response being read, read: `Unasked`, `Asked`, `Reading`, `Fetched`) to the place of
  main (`Idle`, `Taking`, `Staging`, `Offering`, `Ending`). None of the listed properties is
  inductive alone: that the buffer pointer follows the host needs to know that main is
  not about to move it, which needs to know that dataAvail and tpmGo are not on their
  way back into the register. So `Locals` says what main holds in `reg`, `value` and
  `call` between a load and its store, `Clear(b)` that a bit is in none of the three, and
  `Replies` what the bytes staged for the host, or already read by it, still promise.
* `Refusing` is where an oversized command leads. The parser may do anything then, so the
  invariant uses nothing of it: the first byte of the refused command is at the start of the
  buffer, `fifo_fill` is not 0 (a byte that the handler stores goes behind it, and nothing on
  this path moves `fifo_fill` back), and therefore main, whichever tpmGo it sees, real
  or misread, comes to `TIS_init` and never to `Execute` (`RefusingPc`). The command counts as submitted
  (`Refused`) or is about to be (`Submitting`). `SentGrows` shows that nothing
  submitted is taken back.
* `FifoFollowsHost`, `ReadyMeansIdle` and `DataStaysAvailable` hold until a command is refused
  and are stated so (`Refused \/ ...`): afterwards the host may load or fetch on garbage.
  `HeaderRead` and `RegisterFound` show that the handler reads from the bits of a header and
  of an address what the host put into them.
* The proof has one lemma per kind of step: the handler's effect on the registers once the
  parser is known to be in frame (`IsrEffect`), then the handler, main and the host in each
  of the four stages.

One hypothesis is left: `WritesReady = TRUE`, the host writes commandReady before a
command, as the protocol asks. Without it all the theorems of the second part but
`OversizedNeverExecuted` are *false*: a host that loads its next command on a stale
commandReady does so while main is still in the `fixSTS` of its response loop. TLC finds a
counterexample within seconds for each. (`FramingCorrect` and `RepliesStaged` need
`Oversized = {}` instead, and TLC finds one for them when it is dropped.)

`BackToReady`, and the progress part of the refinement, are liveness and stay with TLC.

## 4. The stream converter and the platform: `MCPlatform`

**Converter** (`StreamSlowdown`, `Batcher`). It collects `Factor` words into a
vector. A step is a clock cycle; `counter` and `chain` are its registers, `valid`,
`payload`, `ready` what the two sides drive in this cycle, and the handshake
outputs are operators (`InReady`, `OutValid`, `OutPayload`). The environment is the
one the formal bench in `SlowdownTest.scala` assumes: a stalled word stays offered,
the downstream is ready when it likes, and a reset may come in any cycle. `Reset`
restarts the counter but not the chain, as in the code. `accepted` and `batches`
are histories, the first one the bench's `inHistory`. `Batcher` is the promise with
no clock: every `Factor`-th word goes out with those before it, and a reset forgets
what has not gone out. Bounds: factor 3 (not a power of two, so that the counter's
overflow is not its wrap), two kinds of words, seven words: two vectors and a rest.

**Memories** (`MemoryBus`). The block RAM of the simulation with its initial
content, the ECP5's memories of one bit and the ASIC's SRAM macro answer to the same
bus and differ in what they take for a write, in what their output register shows
in a cycle with a write, and in their content at the start; `kind` says which of
them it is. A step is a cycle with any command or none. `model` and `promised` are
histories: the words as the commands leave them and what the reads of the last two
cycles have to return. `ReadsLastWritten` rests on one assumption about the bus,
`Drives`: the ASIC takes the write line without the valid bit, so the line has to be
low when there is no command. Two words of two lanes of one bit and every
mask are all the relations between addresses and masks there are.

**SPI bridge** (`SpiTcp`). The accepting thread stores the output stream and then the
input stream; the simulation's thread looks at one, reads from whichever is stored
by then, clocks eight bits against the slave's shift register and writes to the other.
Each load and store of the two variables is a step of its own; the select line and
the shift register are the slave's side. Clients come, send and leave at any time.
Three clients let a thread that holds the first one meet the second and the
third; a byte each is enough for an answer in the wrong place. `AnswersForward` is
what holds in spite of the unlocked variables (an answer never goes back to an
earlier client and is lost only with its client), `LastClientServed` the progress,
with the one exception the code has: `available()` asks one stream and `read()`
waits in the one that replaced it. Fairness: both threads run (`WF` on each); clients
are under no obligation.

**Console** (`SimConsole`). A step is the next event of three timers, in sixths of a
clock cycle: the UART's divider gives bits of 100 cycles, the decoder and encoder of
`HSMSim` work with 104 1/6. The text of 20 bytes is longer than the UART's queue of
16, holds all ones, all zeros and both alternations, and is written at any pace,
also without pauses; the exit pin is driven at any time after the last byte.
`ConsoleExact` covers both directions and the delay of 50000 cycles at the end.

### Proofs (`PlatformProofs`)

For every factor, word set and bound: `TypeCorrect`; `ChainCorrect` (`ChainInv` is
`TypeOK /\ ChainMatches`, inductive as it stands: a shift of the chain shifts the
suffix of `accepted` it equals); `Refinement`, with the same invariant and the identity
on the histories; `OutputStable`, which uses that a stalled upstream keeps its word.

`ReadsCorrect`: for every set of addresses, lanes and byte values and every initial
content, all three memories satisfy `ReadsLastWritten` under any sequence of commands. The
inductive invariant `Pipeline` adds that `mem` is `model`, and says of the first
of the two stages what `ReadsLastWritten` says of the second: a read that is under way
finds in the output register what it was promised. The step shows that a read
takes its word before any later write, and that a memory's output under a write is
never answered.

`AnswersGoForward`: `BridgeSpec => []AnswersForward` for every number of clients and bytes,
whenever clients come, send and leave. The inductive invariant `BridgeInv` has four parts
besides types: the thread works only for clients that there are (`FromInv`); the byte
in flight is half in each register (`ShiftInv`: after n clocks the first n bits of the
slave's byte are out and the first n bits of the client's are behind the rest of
it); an answer already given went to its own client or a later one, or to nobody, and
then only because its client had left or been replaced (`AnswersInv`); and exactly one
answer is outstanding between the exchange and the write. The two loads of the streams
in one turn of the loop are what the invariant is for: `from` was loaded before
`outputStream`, so the recipient can only be the later of the two.
`LastClientServed` is liveness and stays with TLC.

`ConsoleAlwaysExact`: `ConsoleSpec => []ConsoleExact` for every text, in both directions,
with and without the exit pin. The bit times are those of the code, 600 against 625 sixths
of a cycle, so the theorem is not about other divisors; what the run could not cover are
texts of any length and content. The inductive invariant `ConsoleInv` says which byte is on the line
(`Taken`, `Current`: what has left the queue), that the bits still to send are the rest of
its frame (`FrameInv`), and, the heart of it, that within a byte sender and receiver have run
for the same time since the start bit fell (`SentFor = ReceivedFor`). From that
`RightBit` follows by arithmetic alone: whenever the receiver's timer is the first to run
down, the bit on the line is the one it waits for; whenever the sender's is, the frame is
not over unless the receiver has finished with it. So no drift is carried from one byte
into the next. `ExitInv` says that the end is further away than what is still to be sent
(`Remaining`): at most 17 frames, 102000 sixths against the 300000 of the delay, and both
sides of the inequality then shrink together.

## 5. The accumulator: `MulAcc`, `MulAccPlugin`

`MulAcc` is one clock cycle per step: the memory `acc`, the address counter (its
register `counter` and its next value `ValueNext`, which is the address of this
cycle), the carry `tmp`, and `isNewCommand`, the code's `past(...)`. Both
variants run: with `sideChannel` an addition ends as soon as no carry is left.
Environment and reference come from `MulAccTest.scala`: stalled commands stay,
the reset may come at any time, and the first command after it clears the memory.
The reference `model` is the value as one number, changed in the cycle in which
a command is taken.

Run `mulacc`: four words of one bit, the smallest words for which a double word
straddles two positions and a carry runs through two more. All operands and
positions are tried. `NeverLate` bounds every command by `Size` cycles, which
`MulAccPlugin` relies on. (The modelled word is `Base`, 2^32 in the code.)

`MulAccPlugin` has the stages decode, execute and memory of the pipeline, with
bubbles that still carry decoded bits, the register `lastMulResult`, and the
queue in front of the accumulator. Here the accumulator is what `MulAcc` shows
of it: it handles its commands in order, each in some cycles (`done`). A product
is the number of the instruction that made it, so that "the wrong product" is
visible. `product`, `sum`, `expected` are what the program means.

* `plugin`: all programs of up to five instructions for the plugin with any
  bubbles, queue of 3. `Spaced = TRUE`: at least one cycle lies between a mul
  and its acc. `WF(PluginClock(TRUE))`: the accumulator finishes each command, which is
  `NeverLate`. Five instructions fill the queue and leave one to stall.
* `plugin_adjacent`: without that space `AddsCorrectMulResult` fails, see below.

### Proofs (`MulAccProofs`, `Inductions`)

`AlwaysInTime`: `Spec => []NeverLate` for every word width and size, with and without
the shortcut. The inductive invariant `Progress` ties the age of a command to the address:
a command that is stalled has gone through `age` words from where it started, and the
last word never stalls. This is the fact on which the fairness of `plugin` rests.

`AlwaysExact` and `ReadsExactly`: `Spec => []MatchesModel` and `Spec => []ReadsModel`, for
every word width and number of words. The inductive invariant `Exact` (checked by TLC
on the instance of `mulacc` first) says what memory, carry and test bench have to do
with each other in the middle of a command: in a clear, that the words so far are 0
(`Clearing`); in an addition, that the memory's value and the carry, at the position of the
next word, make up the old number and the operand at its position (`Adding`):
`Value(acc) + tmp * Power[counter + 1] = model + data * Power[index]`. Each cycle keeps the
sum (`AddsWord`). At the last word the carry counts `Modulus`, which is what the test
bench takes the remainder by; with the shortcut there is none left. That a read returns
`WordAt` is `WordOfValue`: what is above a word is a multiple of what it counts, what is
below is less. A value is a sum over the words, so these lemmas are inductions. The
library's induction theorems take a predicate, which the provers cannot instantiate; in
`Inductions`, the module that the other proofs share, the lemma `Induction` is about a set of
numbers instead and follows from a least element, and `Recursion` gives the existence of a
function whose values are each made of the one before, such as `Power` and `UpTo`, which
`MulAcc` defines recursively because the prover leaves `^` uninterpreted.

`ReadsCorrect`: `Spec => []ReadsMatchProgram` for every program, every depth of the queue,
any bubbles and stalls and any timing of the accumulator. The inductive invariant
`PluginInv` says that the commands in the queue form a chain of values (`Ends`) from the
accumulator's present sum to the one that, with the instruction in the execute stage,
is the program's; that the register `lastMulResult` holds the program's product when an acc
is in execute, and will hold it when the next one gets there (`ProductInv`); and that a read
is the last command of the queue exactly while its instruction waits in the memory stage
(`ReadInv`), so that what it returns is the end of the chain. Chains are functions
rather than recursive definitions, so that pushing and popping a command are lemmas
without induction. The hypothesis `Spaced = TRUE` is the condition that `plugin_adjacent`
shows to be necessary.

## 6. AES, plain and masked: `Aes`, `AesPeripheral`, `AesMasked`, `Fips197`, `MCAes`, and their proofs

`Aes` is the core of `AES.v` with its data path: a byte is the set of its one
bits, and the S-box is the netlist of the file (two changes of basis around an
inversion in the tower field), not a table. `CoreNext` is one clock: the state
and key registers shift bytes, rows and columns while `fsm`, `round` and
`control` say in which of the sub-steps the core is. A round takes 21 cycles, in
which the key of the round is computed while the one before is still in use.

`AesPeripheral` adds `AESBlackbox.scala` (the flags `enable` and `done`, the two
queues of four words, register decoding) and the driver: `AES_write`, the start,
the polling loop and `AES_read` of `aes.h` as the sequence of its bus accesses,
`at` being the next one, and the loop over the test vectors of `aes-test`'s
`main.c`. An access takes two cycles; between accesses any number may pass.

`AesMasked` is the same, with variables of its own (`mcore`, `mat`, ...), for `AES_Masked.v`, `AESMaskedBlackbox.scala` and the driver of
`aes-masked-test`. State and key are two shares each; a word goes to the share that
the occupancy of its queue stands for (`Offers`), and the core asks for shares in
turn (`Asks`). Of the five stages of the masked S-box the model keeps what
they compute: four cycles after its input, the S-box of the sum of the shares,
split as the random word says. Random words are numbers, so that a repeated one is
visible; ChaCha itself is a source of distinct words. The driver's loop over blocks
of random words is modelled with its counter, with the copy of the shares over the
first half of a block, and with the block that is left over for the next vector.

Run `aes`: the vectors of `tv.c`, four for the plain driver (its loop starts at 1), all
five for the masked one. Every behaviour is checked with every delay of the CPU:
`LoadsWholeBlock` and `HandshakeKept` (a poll never sees the flag of the block
before, no start and no answer is lost) are about delays,
`KnownAnswer`, `RoundsMatchStandard` and `MaskedAnswer` about data, `FreshMasks` about
the random words: one is there whenever the S-box works, and none is used twice or
comes from the shares copied into the block. `Fips197` writes the standard down
independently of the core (affine map of the inverse found by search, row and column
definitions, a round and a round key at a time); `RoundsMatchStandard` compares with it the
state and the first word of the round key at the start of every round, and the state at
the end. `MCAes` extends both peripherals; a behaviour is one firmware's. Fairness, for each driver: `WF` of its
`Start \/ Setup \/ Transfer`, since the clock runs and the CPU gets to its next
access; `DriversFinish` needs it.

### Proofs (`AesRounds`, `AesProofs`, `AesMaskedProofs`)

Two assumptions are facts about given data, of which TLC computes every case on each run:
`FieldAssumption` (for all 256 bytes the S-box netlist of `AES.v` is the standard's, and the
products by x and x + 1 are made of its doubling) and `VectorsAssumption` (the vectors that
the run's constants name are AES: the standard encrypts each plaintext to its ciphertext).
The theorems hold for every sequence of vectors that satisfies the second.

`AesRounds` has what both cores need of the standard: the operations keep texts of bytes
(`RoundTyped`), exclusive or is a group (`XorGroup`), a round key is made of the one before byte
by byte (`NextKeyIs`), the round constants are the doublings of 1 (`RconDoubles`), and the
sequences of round keys and texts begin with key and plaintext and go on by `NextKey` and
`Round` (`RoundKeysAre`, `TextsAre`: the two recursive functions exist, by `Recursion`). It also
has the forms in which a register of either core holds a text that is turning into the next,
`Moved` and `Passing` (below), and what a clock makes of them.

Plain, for every sequence of blocks and any delays of the CPU:
`ProtocolCorrect` states the protocol invariants of the plain peripheral. They are not
inductive: `ProtocolInv` adds where the core is while the driver is at each access
(`Filling`, `Running`, `Fetching`), such as "the core is idle and not enabled and
the queues hold as many words as have been written" for accesses 1 to 9; the
delicate case is the cycle after the core was enabled, in which `done` may still
be that of the block before but no access can complete. `HandshakesKept` follows from
the same invariant. `TypesCorrect` is the type
invariant of every register, from the widths of the operators.

`RoundsCorrect` and `AnswersKnown` are what the core computes. Their invariant
`CipherInv` has the two above and three parts more: the queues hold the words of key and
plaintext that have been written and not taken (`Contents`); the state and key registers hold,
while they are loaded, the words so far, in a round what `RoundsAt` says, and at the end the
ciphertext (`Computed`); and what has been fetched is ciphertext (`Answered`). `RoundsAt`
is the 21-cycle schedule written as a relation to the standard's texts and keys: in cycle
*c* of round *r* the first 16 - *c* bytes of the state are those of the text not yet substituted
and the rest those that have come out of the S-box (`Moved`); the row shift happens between
cycle 16 and 17, and the columns are mixed one by one. The key register shows why this
schedule is delicate: in its first cycles a round's key is not there yet, only its
first word is, and the other words become its own just as they pass the head of the chain
(`Passing`); they turn (`Turned`), and then the first word of the *next* key is computed from
the last column of this one (`Headed`). One lemma says of each of these forms that a clock
takes it to the next; the rest of the proof shows that no byte is needed before it is there.

Masked: `MasksAreFresh` is `JobsSpec => []FreshMasks`, for any
blocks (the queues of key and plaintext matter by their lengths only). Its invariant
`MaskInv` has four parts besides types:

* `Filling`, `Running` and `Fetching`, as for the plain core: the rounds start only after the
  270 writes of MASK, and the driver writes none while they run.
* `Supplied`: 270 words are there when the rounds start, and 25 * (`round` - 1) + `control` have
  gone at most. Ten rounds of 25 cycles and one of 16 are 266, so the queue is not empty
  in any cycle of the S-box. That a word for a full queue is lost does no harm, since
  the queue's 280 places are more than 270.
* `Numbered`: the driver is at word 16 * `counter` + 16 - `left` of ChaCha, and what it has not
  used of its block is ChaCha's. `left` is (280 - words written) % 16: a vector
  starts at word 8 and ends, 270 words on, at word 6 of a block. The copy of the shares
  over words 0 to 7 and the restart at word 8 therefore skip two words and repeat none.
  With another number of words per vector or another copy this would not hold.
* `Ordered`: the words in the queue increase, after the last one used and before the
  driver's next.

`MaskedAnswers` is `JobsSpec => []MaskedAnswer`: whatever the blocks (of `VectorsAssumption`),
the random words and the delays, the shares of key and plaintext reach the registers they are
meant for, and the two shares fetched add up to the ciphertext. The argument is that all the core
does to a share but the S-box is linear in exclusive or (`StateSum`, `KeySum`, for which
`XtimeSum` and `MixColumnSum` do the field's part), and that the shares the S-box puts out
differ by a split that cancels. So the sum of the shares (`WholeState`, `WholeKey`) takes the steps
of one unmasked register file (`SumStep`), whatever the random words are. The invariant
`AnswerInv` adds to `MaskInv`:

* `Queues` and `InLoading`: which word each place of the two queues holds, and the columns
  that have been loaded. A word belongs to the second share when its queue has four or
  fewer, which is right only because the core starts when both queues hold eight and takes a
  word from both in every cycle; so `Queues` needs the lengths of `Filling` and `Running`.
* `InRounds`: the 25-cycle schedule. The S-box answers after four cycles, so that in
  cycle *c* the state holds the bytes of the text that have not left, then four that are of no
  use, then those that have come out (`Delayed`); what is on its way is in the stages
  (`StagesAt`). The key register goes through `Passing` or `Moved`, the turn of its last column
  (`Turning`) and the first column of the next key (`Replaced`), which meets the four bytes
  that come out of the S-box just then.
* `Answered`: the ciphertext stays in the registers until all eight words have been
  fetched, and the words of the first share that have been fetched so far are those of
  the register of which the second is still to come.

## 7. The test programs and multest: `Comba`, `FpGeneric`, `Fpx`, `FieldCalls`, `P434`, `PrintInt`, `Programs`, `MCMultest`

**Multiplications** (`Comba`). `CombaPlugin` does everything that is visible in the write-back stage, in program
order, so a step is an instruction. `Product` is the multiplication from four
products of halves with the widths of the intermediate sums, `HighWord` the
correction for signs, `Sum` the accumulator's adder. (`MulAccPlugin.scala`
contains the same multiplication and correction, lines 76-117 and 132-165.)
The programs are `mul_comba` and the loops of `main` in `multest`, instruction by
instruction, called with any operands while any other code uses the unit between
calls, with one condition: a program is called when the accumulator holds no
more than the words that it clears (two for `mul_comba`, one for `main`). Nothing
in the code enforces this: two large additions are enough to leave a bit above
the two words that `mul_comba` shifts out. `KaraMult`, which the same file holds and nothing
instantiates, is one level of that multiplier over exact products of halves;
`MultipliesAsRiscV` checks it as well.

Bounds: words of 4 bits (`HalfBits = 2`), four words per operand as in the code. With 2 bits
(`HalfBits = 1`) the carry of the middle sum (`Middle`) would never occur. The accumulator has 2
guard bits, exactly enough for columns of four products; the code's 8 suffice for
256. `Digits = {0, 15}` gives the largest products and holes between them, and
`Words` contains both signs. `MulOps` are compared with the RISC-V definition,
the programs with the schoolbook method column by column, after every
instruction (`ColumnsExact`) and at the end (`ReturnsProduct`).
`SubtractsTwoWords` says what `MULACC_SUB` is: subtraction in the two low words;
since its operand is not extended to the accumulator's width, the guard bits
receive the carry. No program of the repository uses it.

**Field arithmetic** (`FpGeneric`, `Fpx`, `FieldCalls`). The macros on digits, `fp_generic.c`
and `fpx.c` function by function; a loop is a function of its rounds. A step of
`FieldCalls` is a call whose operands are whatever earlier calls returned.
`ImplementsField` maps the digits to residues and shows that the calls implement
`FieldService`, exact arithmetic in the field of p^2 elements, which sees no
representation. The instance is the prime 191 = 4^3 * 3 - 1 in six digits of two bits: like p434
it is 3 modulo 4, its lowest digits are all ones (half of `p434p1` is zero digits,
which the reduction skips) and the words leave room above twice the prime. Three calls
reach every operation on what every other returns; two pairs of elements include 0 and -1,
so that `fpneg` makes the representative that equals twice the prime.

**Parameters** (`P434`). The constants of `P434.c` at their full size, in digits of 16 bits: the
primes, orders and Montgomery constants fit each other and the arithmetic of
`fpx.c`, the three abscissas of each generator lie on the curve as they must, each of
the four inversion chains (of which the build compiles one) ends at the power
(p - 3) / 4, and the strategies of both parties have an entry for every point and room
for the points kept; and the lengths that `api.h` gives the buffers agree with the lengths
that the numbers of bits yield (`SizesConsistent`). Nothing in `multest` computes or
tests this.

**Printing** (`PrintInt`). A round of `print_int` is a step; the numbers combine the extreme limbs
and two in between, 256 numbers of 64 bits. What is left, followed by the digits
written, is the number after every round.

**The programs themselves** (`Programs`). `main` of each of the six test programs is a sequence
of statements, from the first text to the pins by which the simulation judges it. What is
printed or computed between is a statement without effect here (the modules above
model it); time passes only at the two readings of the cycle counter, at which it may be
anything. `cpucycles` reads the lower half and then the upper, `Gap` cycles apart at most.
`ReportsTruly`: the printed time is the time between the calls unless the lower half
overflows inside one of them, when it is 2^32 off (`multest/src/main.c:48-53`; nothing
notices), and the simulation ends with success only after the program's last statement,
although `OUTPUT`, which tells success from failure, has no reset. Bounds: `Half = 3`,
that is, nine instants, every one of which is tried at every reading, and `Gap = 2`,
so that an overflow between the halves occurs for one phase and not for another.

### Proofs (`MultestProofs`)

The accumulator, for every width of word and every accumulator whose guard bits count four
products (`WidthAssumption`; the code's 32 and 8 bits among them), any operands, and any
instructions between the programs:

* `Multiplies` (`MultipliesAsRiscV`). That `Product` is the product rests on the sum of four
  products of halves never exceeding the widths it is cut to; `HighWordIs` turns the
  correction, which adds the complements of both operands and 2, into the signed product's
  high word by counting in multiples of the word. `KaraMultIs` does the same for the multiplier
  from three products, sign by sign.
* `Columnwise` and `Returns` (`ColumnsExact`, `ReturnsProduct`). The invariant is
  `CombaInv`: types, what the last instruction returned (`RetiredInv`), and for a program under way
  `ProgramInv`: before its first product the accumulator holds only words that the
  shifts to come clear (`Clearing`); from then on it is the carry of the columns
  before and the sum of the products of this column so far (`Multiplying`). `CarryBounds`
  and `SumBounds` show that this fits the accumulator, which is what the guard bits are for.
  Both programs are sequences that the code unrolls or loops over (`UnrolledIs`, `LoopsAre`):
  `ProgramsAre` says of both that every pair of words is multiplied once, in its column, and
  every column is stored after its pairs.
* `MultipliesNumbers`: the callers' contract in one equation. The words returned, as a number,
  are the product of the operands as numbers (`ProductOfNumbers`, which no run states: for
  the run's words it follows from `ReturnsProduct`).
* `Subtracts` (`SubtractsTwoWords`): `MULACC_SUB` is subtraction in the two low words.

`Truthful` (`ReportsTruly`), for every width of the cycle counter's halves and every gap between
its two readings up to one half's period: a reading is the time, or is one period of the lower half
ahead of it, which happens only if that half overflows between the two (`CyclesAre`), so
that the time printed is exact when neither call meets an overflow. The verdict's part is
about the texts of `main`: `MainEnds` shows that in each program the statement before the
last one resets `OUTPUT`, that the last one is the only one that ends the simulation, and
that nothing in the repeated and generated parts does (`QuietRepeated`, `QuietTexts`).

## 8. Keccak: `Fips202`, `Fips202Inc`, `KeccakF1600`, `HashService`, `KeccakStandard`, `MCKeccak`

`Fips202` has the functions that take a message in one call, over a state that is
a parameter with the three functions of `keccakf1600.c` that touch it; `Fips202Inc` the
incremental functions, whose loops are steps, the block-wise ones, and a caller that makes
any calls in the order the comments demand. `KeccakF1600` is the other file: an
iteration of its loop, two rounds with the lanes renamed from A to E and back.

`HashService` is FIPS 202's sponge over any permutation, and a service that absorbs a message
in pieces and gives out as many bytes as asked for. `KeccakStandard` is section 3 of FIPS 202
on sets of coordinates, with distances and constants computed as the standard computes
them, not tabulated.

Run `keccak` separates the two questions.
* The functions run over a *free* permutation: a symbolic state that records everything
  absorbed between its applications, so that two outputs are equal only if the same bytes
  went in at the same places. Rates are scaled down to 3 to 9 bytes, all different;
  messages and outputs of up to 19 bytes cover two whole blocks of the longest rate and a rest, in every cut into
  calls. `ImplementsService` is the refinement; `OneCallIsStandard` the functions of one
  call, cSHAKE with its header included.
* The permutation runs at full width on three states that the functions absorb
  with the real rates: `PermutationIsKeccak` compares all lanes after every iteration, and
  what comes out with published digests.

`keccak_stack` is a finding, see below. No fairness: nothing here has to happen.

## 9. Findings

| Run | What the code does | What is said |
|---|---|---|
| `tis_lost_go` | on the last byte of a transaction the handler resets `transfered_bytes` (`tis.c:72`) before it accesses the register, so the last byte of a four-byte status write, `0x00`, goes to `sts[0]` (`tis.c:80`) and erases the tpmGo of the first; if main has not loaded `sts[0]` in between (a tpmGo that `fixSTS` has loaded it remembers), the command is never executed | `tis.h:71`: the bit causes the command to be executed; `src/test/sh/bug.sh` sends the same tpmGo twice |
| `tis_stale_avail` | `fixSTS` sets dataAvail again that the handler cleared with the last byte of the response | `tis.h:70`: dataAvail is cleared when all data has been returned |
| `plugin_adjacent` | an acc directly behind its mul adds the product before | `mulacc.h:9`: the mul before the acc sets the product |
| `keccak_stack` | `sha3_384` (`fips202.c:636`) leaves its state uninitialised, and `keccak_absorb` does not clear it | `fips202.c:24-27`: `keccak_absorb` starts by zeroing the state, which may be uninitialised |

Smaller things met while modelling, which no run is about:

* `api.h` says that public keys have 330 bytes at the prototypes of the ephemeral functions
  and 196 octets where it defines their length; `SIDH_SECRETKEYBYTES` is 27, while
  Bob's private key is said to need 28.
* `multest/src/main.c:166` calls `mp_mul(a, b, c, NWORDS_FIELD)` with the arrays of 4, 4 and 8 words
  of the test before; the arrays `_a`, `_b`, `_c` declared for the call are not used.
* `aes-test` prints that a test failed and still ends with success; `hello_world_spi` never
  increments the counter that should end it; `multest` never asks the simulation to end.
* `aes-masked-test` copies the shares over the block of random words, its `memcpy` arguments
  presumably the wrong way round (`main.c:151-152`; `AesMasked` models the copy).

## 10. What is proved, what is only checked

| | Proved for all constants | Model-checked on the instance |
|---|---|---|
| `Tis` | `TypeOK`; `InFrame`, `ReplyStaged` (no oversized commands); `CommandIntact`, `NeverExecutesOversized`, `ServiceSafety`, and until a command is refused `FifoTracksHost`, `ReadyIsIdle`, `AvailUntilRead` (the host writes commandReady) | `BackToReady`, the progress of `TpmService` |
| `MulAcc` | `MatchesModel`, `ReadsModel`, `NeverLate` | |
| `MulAccPlugin` | `ReadsMatchProgram` (an instruction between mul and acc) | `ReadsReturn` |
| `StreamSlowdown` | `ChainMatches`, the refinement of `Batcher`, types, and the stability of its output | |
| `MemoryBus` | `ReadsLastWritten` | |
| `SpiTcp` | `AnswersForward` | `LastClientServed` |
| `AesPeripheral` | types, `LoadsWholeBlock`, `HandshakeKept`, `RoundsMatchStandard`, `KnownAnswer` | `DriversFinish` |
| `AesMasked` | `FreshMasks`, `MaskedAnswer` | `DriversFinish` |
| `SimConsole` | `ConsoleExact` | |
| `Comba` | `MultipliesAsRiscV`, `ColumnsExact`, `ReturnsProduct`, `SubtractsTwoWords` | |
| `Programs` | `ReportsTruly` | |
| field arithmetic, `P434`, `PrintInt`, Keccak | | everything |

Assumptions of the proofs are the named ones of the modules (`BlocksAssumption`,
`FieldAssumption`, `VectorsAssumption`, `WidthAssumption`, `Shape` of `PlatformProofs`, the types and ranges of the constants) and the hypotheses in
parentheses above, which the theorems state and which are values of constants that runs use
(`WritesReady = TRUE`, `Oversized = {}`, `Spaced = TRUE`); TLC evaluates those that
are assumptions of a run's module. No theorem has a bound: numbers of commands,
clients, words and instructions are constants of any size.

What stays with TLC, and why:

* Liveness (`BackToReady`, `ReadsReturn`, `DriversFinish`, `LastClientServed`, the progress
  half of refinements): the prover does not handle `ENABLED`.
* What the remaining data paths compute (`PrintsDecimal`, `ImplementsField`): it takes
  induction over limbs or digits and division of long numbers by digits.
* What concerns given numbers (`ParametersConsistent`, `PermutationIsKeccak`): TLC
  computes it at full size, so that there is nothing to generalise.
* What is stated in modules that reach recursive operators (Keccak's sponge and its refinement).

Worth proving next: `PrintsDecimal`, the division of a number of several limbs by ten, and the
Montgomery reduction of `ImplementsField`, on top of the sums of `MultestProofs`.

## 11. What is not modelled, and why

* The TPM and crypto libraries: their sources are submodules that are not part of the
  repository. `Execute` in `Tis` stands for the TPM. `hsm/config.h` and
  `hsm/bak.config.h` are two copies of the configuration header of mbed TLS, 4290 lines of
  comments and `#define` without behaviour.
* The SoC's interconnect, the CPU and the controllers of the peripherals are
  SpinalHDL's and VexRiscv's; the repository chooses their parameters and wires them. Their
  side of an interface (a queue offers a word a cycle after the push, an access takes two
  cycles, the write line is low between commands) is an assumption of the modules that
  use it. That the plain AES peripheral hands out a ciphertext word whenever address and enable match
  (`AESBlackbox.scala:103`), without the select line, is harmless or not by what the bus
  drives when it is not selected, which is outside the repository.
* Interrupts between the instructions of `mulacc_add`: no handler in the repository multiplies.
  Flushes after branches: what the plugins see of the pipeline is all that is modelled.
* `P434/generic/fp_generic.c` and `P434/P434.c` duplicate files that the build compiles from
  elsewhere; the other architectures of `config.h` and what the SIKE headers only declare
  (curves, isogenies, key exchange) have no code here.
* The masked S-box's pipeline inside: whether its intermediate values are free of
  dependence on secrets is a statistical question that a model of what it computes cannot answer.
* Board tops, black boxes, the TRNG, pseudo terminal and command line of the simulation,
  the Rust firmware (benchmarks of a library that is not in the sources), C library stubs, `Clock.c`, linker scripts, start-up code and the flash model
  `MX25L12833F.v`: wiring, constants, system calls, vendor code, or straight-line demonstrations.
