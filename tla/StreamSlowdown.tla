--------------------------- MODULE StreamSlowdown ---------------------------
(***************************************************************************)
(* The stream width converter StreamSlowdown, one clock cycle per step,    *)
(* with the environment its formal test bench assumes: an upstream that    *)
(* keeps a stalled word, a downstream that is ready when it likes, and a   *)
(* synchronous reset at any time.                                          *)
(***************************************************************************)
EXTENDS Integers, Sequences

CONSTANTS
  Words,     \* payloads of the input stream
  Factor,    \* words per output transaction
  MaxItems   \* bound: words the upstream offers between resets

ASSUME FactorAssumption == Factor \in Nat /\ Factor > 1

ASSUME BoundAssumption == MaxItems \in Nat

VARIABLES
  counter, chain,        \* registers; the chain has no reset value
  valid, payload, ready, \* io.input.valid, .payload and io.output.ready now
  accepted, batches      \* histories: words in, vectors out

registers == <<counter, chain>>
inputs    == <<valid, payload, ready>>
history   == <<accepted, batches>>
vars      == <<registers, inputs, history>>

-----------------------------------------------------------------------------
(* Combinational outputs.                                                  *)

WillOverflowIfInc == counter = Factor - 1

InReady  == WillOverflowIfInc => ready
OutValid == WillOverflowIfInc /\ valid
InFire   == valid /\ InReady
OutFire  == OutValid /\ ready

OutPayload == [i \in 0..Factor - 1 |-> IF i = 0 THEN payload ELSE chain[i]]

-----------------------------------------------------------------------------
Init ==
  /\ counter = 0
  /\ chain \in [1..Factor - 1 -> Words]
  /\ valid = FALSE /\ payload \in Words /\ ready \in BOOLEAN
  /\ accepted = <<>> /\ batches = <<>>

(* The inputs of the next cycle.  A stalled word stays offered.            *)
Drive ==
  /\ valid' \in BOOLEAN /\ payload' \in Words /\ ready' \in BOOLEAN
  /\ valid /\ ~InReady => valid' /\ payload' = payload
  /\ valid' => Len(accepted') < MaxItems

(* The registers of the chain advance when the input fires.                *)
ChainStuck == chain
ChainNext == IF InFire THEN [i \in 1..Factor - 1 |-> OutPayload[i - 1]] ELSE chain

CounterSaturates == IF InFire /\ ~WillOverflowIfInc THEN counter + 1 ELSE counter
CounterNext ==
  IF InFire THEN IF WillOverflowIfInc THEN 0 ELSE counter + 1
            ELSE counter

Clock ==
  /\ chain' = ChainNext
  /\ counter' = CounterNext
  /\ accepted' = IF InFire THEN Append(accepted, payload) ELSE accepted
  /\ batches' = IF OutFire THEN Append(batches, OutPayload) ELSE batches
  /\ Drive

(* A cycle with the reset active: the counter restarts, the chain does not *)
(* notice; both sides drop what they were doing.                           *)
NoReset == counter
ResetValue == 0

Reset ==
  /\ counter' = ResetValue
  /\ chain' = ChainNext
  /\ accepted' = SubSeq(accepted, 1, Factor * Len(batches))
  /\ UNCHANGED batches
  /\ valid' = FALSE /\ payload' \in Words /\ ready' \in BOOLEAN

Next == Clock \/ Reset

Spec == Init /\ [][Next]_vars

-----------------------------------------------------------------------------
(* Types.                                                                  *)
TypeOK ==
  /\ counter \in 0..Factor - 1
  /\ chain \in [1..Factor - 1 -> Words]
  /\ valid \in BOOLEAN /\ payload \in Words /\ ready \in BOOLEAN
  /\ accepted \in Seq(Words)
  /\ batches \in Seq([0..Factor - 1 -> Words])

(* The registers hold what has been accepted and not given out: the words  *)
(* of the test bench's inHistory, latest first, as many as counter says,   *)
(* whatever garbage the chain holds after a reset.                         *)
ChainMatches ==
  /\ Len(accepted) = Factor * Len(batches) + counter
  /\ \A i \in 1..counter : chain[i] = accepted[Len(accepted) + 1 - i]

(* Handshake: an output that the downstream does not take stays valid and  *)
(* does not change, unless there is a reset.                               *)
OutputHandshake ==
  [][OutValid /\ ~ready /\ ~Reset => OutValid' /\ OutPayload' = OutPayload]_vars

Batch == INSTANCE Batcher

(* The stream of output vectors is the input stream in batches: no word is *)
(* lost, repeated or reordered, under back pressure and across resets.     *)
ImplementsBatcher == Batch!Spec
=============================================================================
