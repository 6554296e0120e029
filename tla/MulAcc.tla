------------------------------- MODULE MulAcc -------------------------------
(***************************************************************************)
(* The multi-cycle accumulator MulAcc, one clock cycle per step.  A number *)
(* of Size words is kept in a memory; a command clears it, adds a double   *)
(* word at the position of one of its words, or reads one of its words.    *)
(* Clearing and adding take a cycle per word, since the memory has one     *)
(* port; the carry between the words is kept in a register.                *)
(*                                                                         *)
(* The environment is that of the test bench: a stalled command stays on   *)
(* the bus, the downstream is ready when it likes, the reset may come at   *)
(* any time, and the first command after it clears the memory.             *)
(***************************************************************************)
EXTENDS Integers

CONSTANTS
  Base,        \* 2 to the width of a word (32 bits in the code)
  Size         \* words of the accumulator

ASSUME SizeAssumption == Base \in Nat /\ Base > 1 /\ Size \in Nat /\ Size > 1

Word == 0..Base - 1
DoubleWord == 0..Base * Base - 1
Index == 0..Size - 1
Ops == {"reset", "acc", "read"}

VARIABLES
  sideChannel,        \* which variant: may an addition end without a carry?
  counter, acc, tmp,  \* registers and memory of the component
  isNewCommand,       \* register: was the last command over one cycle ago?
  valid, op, data, index, \* the command on the input stream
  ready,              \* is the downstream ready for an output?
  model,              \* the test bench's one-cycle accumulator
  needsReset,         \* the test bench's record that no reset came yet
  age                 \* cycles the current command has been stalled

registers == <<counter, acc, tmp, isNewCommand>>
inputs    == <<valid, op, data, index, ready>>
bench     == <<model, needsReset, age>>
vars      == <<sideChannel, registers, inputs, bench>>

-----------------------------------------------------------------------------
(* Combinational signals.                                                  *)

Increment == IF counter = Size - 1 THEN 0 ELSE counter + 1

(* counter.valueNext, the address of the memory in this cycle.             *)
ValueNext ==
  CASE ~valid                          -> counter
    [] valid /\ op = "reset"           -> IF isNewCommand THEN 0 ELSE Increment
    [] valid /\ op = "acc"             -> IF isNewCommand THEN index ELSE Increment
    [] valid /\ op = "read"            -> index

LagsBehind == counter = Size - 1
WillOverflow == ValueNext = Size - 1

(* The word at that address plus the operand, or what is left of it.       *)
WordSum == acc[ValueNext] + (IF isNewCommand THEN data ELSE tmp)

High(s) == s \div Base
Low(s) == s % Base

(* The last cycle of a command.                                            *)
DropsCarry == WillOverflow \/ sideChannel
AddEnds == WillOverflow \/ (sideChannel /\ High(WordSum) = 0)

InReady ==
  CASE op = "reset" -> valid /\ WillOverflow
    [] op = "acc"   -> valid /\ AddEnds
    [] op = "read"  -> valid /\ ready

InFire    == valid /\ InReady
OutValid  == valid /\ op = "read"
OutFire   == OutValid /\ ready
OutPayload == acc[ValueNext]

-----------------------------------------------------------------------------
(* The test bench's accumulator: the value as one number.                  *)

Power[n \in 0..Size] == IF n = 0 THEN 1 ELSE Base * Power[n - 1]
Modulus == Power[Size]

(* The value of the first words of m.                                      *)
UpTo(m) ==
  LET upTo[n \in 0..Size] == IF n = 0 THEN 0 ELSE upTo[n - 1] + m[n - 1] * Power[n - 1]
  IN upTo
Value(m) == UpTo(m)[Size]

WordAt(v, i) == (v \div Power[i]) % Base

ModelNext ==
  CASE op = "reset" -> 0
    [] op = "acc"   -> (model + data * Power[index]) % Modulus
    [] op = "read"  -> model

-----------------------------------------------------------------------------
(* The first cycle after the power-on reset.                               *)
Init ==
  /\ sideChannel \in BOOLEAN
  /\ counter = 0 /\ tmp = 0 /\ isNewCommand = TRUE
  /\ acc = [i \in Index |-> Base - 1]
  /\ valid = FALSE /\ op \in Ops /\ data = 0 /\ index = 0 /\ ready \in BOOLEAN
  /\ model = 0 /\ needsReset = TRUE /\ age = 0

(* The inputs of the next cycle.  A stalled command stays.                 *)
Drive ==
  /\ valid' \in BOOLEAN /\ op' \in Ops /\ data' \in DoubleWord /\ index' \in Index
  /\ ready' \in BOOLEAN
  /\ valid /\ ~InReady => UNCHANGED <<op, data, index>> /\ valid'
  /\ valid' /\ needsReset' => op' = "reset"
  /\ op' # "acc" => data' = 0
  /\ op' = "reset" \/ ~valid' => index' = 0

Written ==
  IF valid /\ op = "reset" THEN [acc EXCEPT ![ValueNext] = 0]
  ELSE IF valid /\ op = "acc" THEN [acc EXCEPT ![ValueNext] = Low(WordSum)]
  ELSE acc

Clock ==
  /\ acc' = Written
  /\ counter' = ValueNext
  /\ tmp' = IF valid /\ op = "acc" THEN High(WordSum) ELSE tmp
  /\ isNewCommand' = (valid => InReady)
  /\ model' = IF InFire THEN ModelNext ELSE model
  /\ needsReset' = (needsReset /\ ~valid)
  /\ age' = IF valid /\ ~InReady /\ op # "read" THEN age + 1 ELSE 0
  /\ Drive
  /\ UNCHANGED sideChannel

(* A cycle with the reset active: the memory is not written.               *)
ForgetsNewCommand == (valid => InReady)
AfterReset == TRUE

Reset ==
  /\ counter' = 0 /\ tmp' = 0 /\ isNewCommand' = AfterReset
  /\ UNCHANGED <<acc, sideChannel>>
  /\ model' = 0 /\ needsReset' = TRUE /\ age' = 0
  /\ valid' \in BOOLEAN /\ op' = "reset" /\ data' = 0 /\ index' = 0 /\ ready' \in BOOLEAN

Next == Clock \/ Reset

Spec == Init /\ [][Next]_vars

-----------------------------------------------------------------------------
(* Between commands the memory holds what the one-cycle accumulator holds. *)
MatchesModel ==
  isNewCommand /\ ~needsReset => Value(acc) = model

(* A read returns the word of the one-cycle accumulator, also in the first *)
(* cycle after any other command.                                          *)
ReadsModel ==
  OutValid => OutPayload = WordAt(model, index)

(* A clear or an addition never takes more than Size cycles.               *)
NeverLate == age < Size
=============================================================================
