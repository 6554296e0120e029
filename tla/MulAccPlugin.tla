---------------------------- MODULE MulAccPlugin ----------------------------
(***************************************************************************)
(* MulAccPlugin: how the CPU's pipeline feeds MulAcc, one clock cycle per  *)
(* step.  The instructions are mul, which leaves its product in a register *)
(* of the plugin, and reset, acc and read, which go through a queue to the *)
(* accumulator; read waits for the answer in the memory stage.             *)
(*                                                                         *)
(* The accumulator is taken for what module MulAcc shows of it: it handles *)
(* its commands in order and each one takes some cycles.  A product is the *)
(* number of its mul, the accumulator the sequence of the products added.  *)
(***************************************************************************)
EXTENDS Integers, Sequences, SequencesExt

CONSTANTS
  FifoDepth,  \* entries of mulCommandFifo
  Spaced,     \* is there an instruction or a bubble between mul and acc?
  MaxInstrs   \* bound: instructions for the plugin in the program

ASSUME DepthAssumption == FifoDepth \in Nat \ {0} /\ MaxInstrs \in Nat

ASSUME SpacedAssumption == Spaced \in BOOLEAN

PluginOps == {"mul", "reset", "acc", "read", "other"}
IsMulAcc(o) == o \in {"reset", "acc", "read"}

Garbage == 0   \* the product of operands that no instruction has read

VARIABLES
  decode,           \* operation of the next instruction
  execute, memory,  \* the stages: isValid, operation, product of a mul
  lastMulResult,    \* the register
  fifo,             \* mulCommandFifo
  total,            \* the accumulator
  results,          \* what the reads returned to the register file
  issued,           \* number of instructions issued so far
  product, sum, expected  \* the same, as the program means it

stages   == <<decode, execute, memory>>
unit     == <<lastMulResult, fifo, total, results>>
program  == <<issued, product, sum, expected>>
pluginVars == <<stages, unit, program>>

Stage(ok, o, p) == [isValid |-> ok, op |-> o, mul |-> p]
Empty == Stage(FALSE, "other", Garbage)

-----------------------------------------------------------------------------
(* Arbitration.                                                            *)

(* A read in the memory stage waits until the accumulator has one.         *)
NeverHalts == FALSE
MemoryHalts ==
  /\ memory.isValid /\ memory.op = "read"
  /\ IF fifo = <<>> THEN TRUE ELSE Head(fifo).op # "read"

(* A command waits in the execute stage while the queue is full.           *)
ExecuteHalts == execute.isValid /\ IsMulAcc(execute.op) /\ Len(fifo) = FifoDepth

ExecuteStuck  == ExecuteHalts \/ MemoryHalts
ExecuteFiring == execute.isValid /\ ~ExecuteStuck
MemoryFiring  == memory.isValid /\ ~MemoryHalts

-----------------------------------------------------------------------------
PluginInit ==
  /\ decode \in PluginOps /\ execute = Empty /\ memory = Empty
  /\ lastMulResult = Garbage /\ fifo = <<>> /\ total = <<>> /\ results = <<>>
  /\ issued = 0 /\ product = Garbage /\ sum = <<>> /\ expected = <<>>

(* The next instruction leaves decode, and what the program means by it.   *)
Issue ==
  /\ ~(Spaced /\ decode = "acc" /\ execute.isValid /\ execute.op = "mul")
  /\ execute' = Stage(TRUE, decode, IF decode = "mul" THEN issued + 1 ELSE Garbage)
  /\ issued' = IF decode = "other" THEN issued ELSE issued + 1
  /\ product' = IF decode = "mul" THEN issued + 1 ELSE product
  /\ sum' = CASE decode = "reset" -> <<>>
              [] decode = "acc"   -> Append(sum, product)
              [] OTHER            -> sum
  /\ expected' = IF decode = "read" THEN Append(expected, sum) ELSE expected
  /\ decode' \in PluginOps
  /\ issued' = MaxInstrs => decode' = "other"

(* An instruction that waits for its operands sends bubbles that carry its *)
(* decoded bits but no valid product; one that is not fetched, empty ones. *)
Bubble ==
  /\ execute' \in {Empty, Stage(FALSE, decode, Garbage)}
  /\ UNCHANGED <<decode, program>>

(* The stages move on where they are not stuck.                            *)
Pipeline ==
  /\ IF MemoryHalts THEN UNCHANGED memory
     ELSE memory' = [execute EXCEPT !.isValid = ExecuteFiring]
  /\ IF ExecuteStuck THEN UNCHANGED <<decode, execute, program>> ELSE Issue \/ Bubble

(* The memory stage stores every product, of an instruction or a bubble.   *)
ProductNext == IF memory.op = "mul" THEN memory.mul ELSE lastMulResult

(* The command that the execute stage pushes, with the product it sees.    *)
Pushed ==
  IF ExecuteFiring /\ IsMulAcc(execute.op)
  THEN <<[op |-> execute.op, data |-> lastMulResult]>> ELSE <<>>

(* The accumulator may be done with the command at the head of the queue;  *)
(* a read is over when the memory stage takes its result.                  *)
KeepsReads(done) == fifo # <<>> /\ Head(fifo).op # "read" /\ done
Popped(done) ==
  /\ fifo # <<>>
  /\ CASE Head(fifo).op = "read" -> MemoryFiring /\ memory.op = "read"
       [] OTHER                  -> done

Accumulate(done) ==
  /\ fifo' = (IF Popped(done) THEN Tail(fifo) ELSE fifo) \o Pushed
  /\ total' = IF ~Popped(done) THEN total
              ELSE CASE Head(fifo).op = "reset" -> <<>>
                     [] Head(fifo).op = "acc"   -> Append(total, Head(fifo).data)
                     [] OTHER                   -> total

PluginClock(done) ==
  /\ Pipeline
  /\ lastMulResult' = ProductNext
  /\ Accumulate(done)
  /\ results' = IF MemoryFiring /\ memory.op = "read" THEN Append(results, total) ELSE results

PluginNext == \E done \in BOOLEAN : PluginClock(done)

PluginSpec == PluginInit /\ [][PluginNext]_pluginVars

(* MulAcc never takes more than Size cycles for a command (its NeverLate). *)
Fairness == WF_pluginVars(PluginClock(TRUE))

FairPluginSpec == PluginSpec /\ Fairness

-----------------------------------------------------------------------------
(* What the reads return is what the program means, in program order,      *)
(* whatever the stalls: each acc adds the product of the last mul before   *)
(* it, each read sees all of the commands before it and none after it; and *)
(* no command is pushed into a queue that is full.                         *)
ReadsMatchProgram == IsPrefix(results, expected) /\ Len(fifo) <= FifoDepth

(* Every read that has been issued returns: the pipeline never locks up.   *)
ReadsReturn ==
  \A n \in 1..MaxInstrs : (Len(expected) >= n) ~> (Len(results) >= n)

(* mulacc.h:9: the multiplication before the acc instruction sets the      *)
(* product that it adds.                                                   *)
AddsCorrectMulResult ==
  execute.isValid /\ execute.op = "acc" /\ ExecuteFiring => lastMulResult = product
=============================================================================
