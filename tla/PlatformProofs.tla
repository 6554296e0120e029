--------------------------- MODULE PlatformProofs ---------------------------
(***************************************************************************)
(* Proofs about the stream converter, the memories, the SPI bridge and the *)
(* console, which share nothing.                                           *)
(*                                                                         *)
(* The converter, for every width factor and every set of words: the words *)
(* it holds are those it has accepted and not given out, and the stream of *)
(* output vectors is the input stream in batches.  The memories, for every *)
(* number of words and bytes, initial content and sequence of commands:    *)
(* they answer every read with what was last written.  The bridge, for     *)
(* every number of clients: no answer goes back to an earlier one.  The    *)
(* console loses nothing: for every text, in both directions, at every     *)
(* pace of the writer, and with or without the exit pin.                   *)
(***************************************************************************)
EXTENDS StreamSlowdown, MemoryBus, SpiTcp, SimConsole, SequenceTheorems, TLAPS

LEMMA OneMoreBatch ==
  ASSUME NEW f \in Nat, NEW n \in Nat
  PROVE  f * n \in Nat /\ f * (n + 1) = f * n + f
OBVIOUS

(* What the combinational outputs are worth.                               *)
LEMMA OutPayloadType ==
  ASSUME TypeOK
  PROVE  OutPayload \in [0..Factor - 1 -> Words]
<1>1. ASSUME NEW i \in 0..Factor - 1, i # 0
      PROVE  i \in 1..Factor - 1
  BY <1>1, FactorAssumption
<1> QED
  BY <1>1 DEF TypeOK, OutPayload

LEMMA ChainNextType ==
  ASSUME TypeOK
  PROVE  ChainNext \in [1..Factor - 1 -> Words]
<1>1. ASSUME NEW i \in 1..Factor - 1
      PROVE  OutPayload[i - 1] \in Words
  <2>1. i - 1 \in 0..Factor - 1
    BY FactorAssumption
  <2> QED
    BY <2>1, OutPayloadType
<1> QED
  BY <1>1 DEF TypeOK, ChainNext

(* ChainMatches is needed for the types: it bounds what a reset drops.     *)
IInv == TypeOK /\ ChainMatches

LEMMA TypeStep ==
  ASSUME IInv, [Next]_vars
  PROVE  TypeOK'
<1>0. TypeOK
  BY DEF IInv
<1>1. CASE Clock
  <2>1. counter' \in 0..Factor - 1
    BY <1>0, <1>1, FactorAssumption DEF Clock, CounterNext, WillOverflowIfInc, TypeOK
  <2>2. chain' \in [1..Factor - 1 -> Words]
    BY <1>0, <1>1, ChainNextType DEF Clock
  <2>3. valid' \in BOOLEAN /\ payload' \in Words /\ ready' \in BOOLEAN
    BY <1>0, <1>1 DEF Clock, Drive
  <2>4. accepted' \in Seq(Words)
    BY <1>0, <1>1 DEF Clock, TypeOK
  <2>5. batches' \in Seq([0..Factor - 1 -> Words])
    BY <1>0, <1>1, OutPayloadType DEF Clock, TypeOK
  <2> QED
    BY <2>1, <2>2, <2>3, <2>4, <2>5 DEF TypeOK
<1>2. CASE Reset
  <2>1. counter' \in 0..Factor - 1
    BY <1>0, <1>2, FactorAssumption DEF Reset, ResetValue
  <2>2. chain' \in [1..Factor - 1 -> Words]
    BY <1>0, <1>2, ChainNextType DEF Reset
  <2>3. valid' \in BOOLEAN /\ payload' \in Words /\ ready' \in BOOLEAN
    BY <1>2 DEF Reset
  <2>4. accepted' \in Seq(Words)
    <3>1. /\ Len(accepted) = Factor * Len(batches) + counter /\ counter \in Nat
          /\ accepted \in Seq(Words) /\ Factor * Len(batches) \in Nat
      BY FactorAssumption, OneMoreBatch DEF IInv, TypeOK, ChainMatches
    <3>2. Factor * Len(batches) \in 0..Len(accepted)
      BY <3>1
    <3> QED
      BY <1>2, <3>1, <3>2 DEF Reset
  <2> QED
    BY <1>0, <1>2, <2>1, <2>2, <2>3, <2>4 DEF Reset, TypeOK
<1>3. CASE UNCHANGED vars
  BY <1>0, <1>3 DEF TypeOK, vars, registers, inputs, history
<1> QED
  BY <1>1, <1>2, <1>3 DEF Next

-----------------------------------------------------------------------------
(* A clock cycle without a transfer leaves the invariant's variables alone.*)
LEMMA IdleStep ==
  ASSUME Clock, ~InFire
  PROVE  UNCHANGED <<counter, chain, accepted, batches>>
BY DEF Clock, CounterNext, ChainNext, InFire, OutFire, OutValid, InReady

(* A word is taken and no vector goes out.                                 *)
LEMMA TakeStep ==
  ASSUME IInv, Clock, InFire, ~WillOverflowIfInc
  PROVE  /\ ChainMatches'
         /\ Batch!Take(payload)
<1>1. /\ counter \in 0..Factor - 2 /\ counter' = counter + 1
      /\ accepted' = Append(accepted, payload) /\ batches' = batches
  BY FactorAssumption DEF IInv, TypeOK, Clock, CounterNext, WillOverflowIfInc, OutFire, OutValid
<1>2. /\ Len(accepted) = Factor * Len(batches) + counter
      /\ accepted \in Seq(Words) /\ Len(batches) \in Nat /\ Factor * Len(batches) \in Nat
  BY FactorAssumption, OneMoreBatch DEF IInv, TypeOK, ChainMatches
<1>3. /\ Len(accepted') = Factor * Len(batches') + counter'
      /\ Len(accepted) \in Nat /\ Len(accepted) >= counter /\ Len(accepted') = Len(accepted) + 1
  BY <1>1, <1>2
<1>4. ASSUME NEW i \in 1..counter'
      PROVE  chain'[i] = accepted'[Len(accepted') + 1 - i]
  <2>1. i \in 1..Factor - 1 /\ i - 1 \in 0..Factor - 1 /\ i - 1 \in 0..counter
    BY <1>1, FactorAssumption
  <2>2. chain'[i] = OutPayload[i - 1]
    BY <2>1 DEF Clock, ChainNext
  <2>3. CASE i = 1
    BY <1>1, <1>2, <2>1, <2>2, <2>3 DEF OutPayload
  <2>4. CASE i # 1
    <3>1. i - 1 \in 1..counter
      BY <2>1, <2>4
    <3>2. chain'[i] = chain[i - 1]
      BY <2>1, <2>2, <2>4 DEF OutPayload
    <3>3. chain[i - 1] = accepted[Len(accepted) + 1 - (i - 1)]
      BY <3>1 DEF IInv, ChainMatches
    <3>4. Len(accepted) + 1 - (i - 1) \in 1..Len(accepted)
      BY <1>1, <1>3, <3>1
    <3>5. Len(accepted') + 1 - i = Len(accepted) + 1 - (i - 1)
      BY <1>3, <2>1
    <3> QED
      BY <1>1, <1>2, <3>2, <3>3, <3>4, <3>5
  <2> QED
    BY <2>3, <2>4
<1>5. Len(accepted) - Factor * Len(batches) < Factor - 1
  BY <1>1, <1>2, FactorAssumption
<1> QED
  BY <1>1, <1>3, <1>4, <1>5 DEF ChainMatches, Batch!Take, Batch!Pending

(* The last word of a vector is taken and the vector goes out.             *)
LEMMA EmitStep ==
  ASSUME IInv, Clock, InFire, WillOverflowIfInc
  PROVE  /\ ChainMatches'
         /\ Batch!Emit(payload)
<1>1. /\ counter = Factor - 1 /\ counter' = 0
      /\ accepted' = Append(accepted, payload) /\ batches' = Append(batches, OutPayload)
  BY DEF IInv, Clock, CounterNext, WillOverflowIfInc, OutFire, OutValid, InFire, InReady
<1>2. /\ Len(accepted) = Factor * Len(batches) + (Factor - 1)
      /\ accepted \in Seq(Words) /\ Len(batches) \in Nat /\ Factor * Len(batches) \in Nat
  BY <1>1, FactorAssumption, OneMoreBatch DEF IInv, TypeOK, ChainMatches
<1>3. /\ Len(batches') = Len(batches) + 1 /\ Len(accepted') = Len(accepted) + 1
      /\ Len(accepted) \in Nat /\ Len(accepted) >= counter /\ counter \in Nat
  BY <1>1, <1>2, OutPayloadType, FactorAssumption DEF IInv, TypeOK
<1>4. Len(accepted') = Factor * Len(batches') + counter'
  BY <1>1, <1>2, <1>3, OneMoreBatch, FactorAssumption
<1>5. ASSUME NEW i \in 0..Factor - 1
      PROVE  OutPayload[i] = accepted'[Len(accepted') - i]
  <2>1. CASE i = 0
    BY <1>1, <1>2, <1>3, <2>1, FactorAssumption DEF OutPayload
  <2>2. CASE i # 0
    <3>1. i \in 1..counter
      BY <1>1, <2>2, FactorAssumption
    <3>2. OutPayload[i] = chain[i]
      BY <2>2 DEF OutPayload
    <3>3. chain[i] = accepted[Len(accepted) + 1 - i]
      BY <3>1 DEF IInv, ChainMatches
    <3>4. Len(accepted) + 1 - i \in 1..Len(accepted) /\ Len(accepted') - i = Len(accepted) + 1 - i
      BY <1>3, <3>1
    <3> QED
      BY <1>1, <1>2, <3>2, <3>3, <3>4
  <2> QED
    BY <2>1, <2>2
<1>6. OutPayload = Batch!LatestFirst(accepted')
  BY <1>5 DEF Batch!LatestFirst, OutPayload
<1>7. Len(accepted) - Factor * Len(batches) = Factor - 1
  BY <1>2, FactorAssumption
<1>8. ChainMatches'
  BY <1>1, <1>4 DEF ChainMatches
<1> QED
  BY <1>1, <1>6, <1>7, <1>8 DEF Batch!Emit, Batch!Pending

(* A reset forgets what the chain holds.                                   *)
LEMMA ResetStep ==
  ASSUME IInv, Reset
  PROVE  /\ ChainMatches'
         /\ Batch!Forget
<1>1. /\ Len(accepted) = Factor * Len(batches) + counter /\ counter \in Nat
      /\ accepted \in Seq(Words) /\ Len(batches) \in Nat /\ Factor * Len(batches) \in Nat
  BY FactorAssumption, OneMoreBatch DEF IInv, TypeOK, ChainMatches
<1>2. Factor * Len(batches) \in 0..Len(accepted)
  BY <1>1
<1>3. Len(accepted') = Factor * Len(batches) /\ batches' = batches /\ counter' = 0
  BY <1>1, <1>2 DEF Reset, ResetValue
<1> QED
  BY <1>1, <1>3 DEF ChainMatches, Batch!Forget, Reset

LEMMA IInvInit == Init => IInv
<1> SUFFICES ASSUME Init PROVE IInv
  OBVIOUS
<1>1. TypeOK
  <2>1. counter \in 0..Factor - 1 /\ chain \in [1..Factor - 1 -> Words] /\ payload \in Words
    BY FactorAssumption DEF Init
  <2>2. valid \in BOOLEAN /\ ready \in BOOLEAN
    BY DEF Init
  <2>3. accepted \in Seq(Words) /\ batches \in Seq([0..Factor - 1 -> Words])
    BY DEF Init
  <2> QED
    BY <2>1, <2>2, <2>3 DEF TypeOK
<1>2. ChainMatches
  BY FactorAssumption DEF Init, ChainMatches
<1> QED
  BY <1>1, <1>2 DEF IInv

LEMMA IInvStep ==
  ASSUME IInv, [Next]_vars
  PROVE  IInv' /\ [Batch!Next]_Batch!vars
<1>1. TypeOK'
  BY TypeStep DEF IInv
<1>2. payload \in Words
  BY DEF IInv, TypeOK
<1>3. CASE Clock
  <2>1. CASE ~InFire
    BY <1>1, <1>3, <2>1, IdleStep DEF IInv, ChainMatches, Batch!vars
  <2>2. CASE InFire /\ ~WillOverflowIfInc
    BY <1>1, <1>2, <1>3, <2>2, TakeStep DEF IInv, Batch!Next
  <2>3. CASE InFire /\ WillOverflowIfInc
    BY <1>1, <1>2, <1>3, <2>3, EmitStep DEF IInv, Batch!Next
  <2> QED
    BY <2>1, <2>2, <2>3
<1>4. CASE Reset
  BY <1>1, <1>4, ResetStep DEF IInv, Batch!Next
<1>5. CASE UNCHANGED vars
  BY <1>1, <1>5 DEF IInv, ChainMatches, vars, registers, history, Batch!vars
<1> QED
  BY <1>3, <1>4, <1>5 DEF Next

(* The converter's registers and histories keep their types for every      *)
(* factor; the counter never leaves its range.                             *)
THEOREM TypeCorrect == Spec => []TypeOK
<1>1. IInv /\ [Next]_vars => IInv'
  BY IInvStep
<1>2. IInv => TypeOK
  BY DEF IInv
<1> QED
  BY IInvInit, <1>1, <1>2, PTL DEF Spec

(* The registers hold exactly the accepted words that have not gone out.   *)
THEOREM ChainCorrect == Spec => []ChainMatches
<1>1. IInv /\ [Next]_vars => IInv'
  BY IInvStep
<1>2. IInv => ChainMatches
  BY DEF IInv
<1> QED
  BY IInvInit, <1>1, <1>2, PTL DEF Spec

(* The converter implements the batcher: for every factor, no word is      *)
(* lost, repeated or reordered.                                            *)
THEOREM Refinement == Spec => ImplementsBatcher
<1>1. Init => Batch!Init
  BY DEF Init, Batch!Init
<1>2. IInv /\ [Next]_vars => IInv'
  BY IInvStep
<1>3. IInv /\ [Next]_vars => [Batch!Next]_Batch!vars
  BY IInvStep
<1> QED
  BY IInvInit, <1>1, <1>2, <1>3, PTL DEF Spec, ImplementsBatcher, Batch!Spec

(* An output that is not taken stays valid and stable.                     *)
THEOREM OutputStable == Spec => OutputHandshake
<1>1. TypeOK /\ [Next]_vars =>
        [OutValid /\ ~ready /\ ~Reset => OutValid' /\ OutPayload' = OutPayload]_vars
  <2> SUFFICES ASSUME TypeOK, Next, OutValid, ~ready, ~Reset
               PROVE  OutValid' /\ OutPayload' = OutPayload
    OBVIOUS
  <2>1. Clock /\ ~InFire /\ valid /\ ~InReady
    BY DEF Next, OutValid, InFire, InReady
  <2>2. counter' = counter /\ chain' = chain /\ valid' /\ payload' = payload
    BY <2>1, IdleStep DEF Clock, Drive
  <2> QED
    BY <2>2 DEF OutValid, WillOverflowIfInc, OutPayload
<1> QED
  BY TypeCorrect, <1>1, PTL DEF Spec, OutputHandshake

-----------------------------------------------------------------------------
(* The memories.                                                           *)

\* A word has bytes, one of their values is 0, and so are those of the files.
Shape ==
  /\ Lanes # {} /\ 0 \in Byte
  /\ \A file \in Files : \A n \in DOMAIN file : file[n] \in Byte

\* What is in the pipeline: the history of the words is the words, and each of the
\* two stages holds a promise exactly when it is valid, and what it promised.
Pipeline ==
  /\ mem \in [Addresses -> Word] /\ model = mem
  /\ valids \in BOOLEAN \X BOOLEAN
  /\ valids[1] <=> promised[1] # Nothing
  /\ valids[2] <=> promised[2] # Nothing
  /\ valids[1] => rdata = promised[1]
  /\ valids[2] => rspData = promised[2]

LEMMA WordIsSomething ==
  ASSUME Shape, NEW w \in Word
  PROVE  w # Nothing
<1>1. DOMAIN w = Lanes /\ DOMAIN Nothing = {}
  BY DEF Word, Nothing
<1> QED
  BY <1>1 DEF Shape

LEMMA MaskedTyped ==
  ASSUME NEW w \in Word, NEW cmd \in Command
  PROVE  Masked(w, cmd) \in Word
BY DEF Masked, Word, Command

\* The bytes of the file, and zeros behind its end.
LEMMA LoadedTyped ==
  ASSUME Shape, NEW file \in Files
  PROVE  Loaded(file) \in [Addresses -> Word]
BY DEF Shape, Loaded, Word

LEMMA PipelineInit ==
  ASSUME Shape, MemoryInit
  PROVE  Pipeline
<1>1. mem \in [Addresses -> Word]
  <2>1. CASE kind = "ram"
    BY <2>1, LoadedTyped DEF MemoryInit
  <2>2. CASE kind # "ram"
    BY <2>2 DEF MemoryInit, Shape, Word
  <2> QED
    BY <2>1, <2>2
<1> QED
  BY <1>1 DEF MemoryInit, Pipeline

\* A cycle: a read enters the first stage with the word that its address holds,
\* and the first stage moves to the second.
LEMMA PipelineStep ==
  ASSUME Shape, Pipeline, NEW cmd \in Command, Drives(cmd), Cycle(cmd)
  PROVE  Pipeline'
<1>1. /\ cmd.valid \in BOOLEAN /\ cmd.write \in BOOLEAN
      /\ cmd.address \in Addresses
  BY DEF Command
<1>2. mem[cmd.address] \in Word
  BY <1>1 DEF Pipeline
<1>3. Writes(cmd) <=> Fires(cmd) /\ cmd.write
  BY <1>1 DEF Writes, Fires, Drives
<1>4. mem' \in [Addresses -> Word]
  BY <1>1, <1>2, MaskedTyped DEF Pipeline, Cycle, MemNext
<1>5. model' = mem'
  BY <1>3 DEF Pipeline, Cycle, MemNext
<1>6. /\ valids'[1] = Reads(cmd) /\ valids'[2] = valids[1]
      /\ valids' \in BOOLEAN \X BOOLEAN
  BY <1>1 DEF Pipeline, Cycle, TwoCycles, Reads, Fires
<1>7. /\ promised'[1] = IF Reads(cmd) THEN mem[cmd.address] ELSE Nothing
      /\ promised'[2] = promised[1]
  BY DEF Pipeline, Cycle
<1>8. Reads(cmd) => rdata' = mem[cmd.address]
  BY <1>1 DEF Cycle, Outputs, Reads, Writes, Fires
<1>9. valids'[1] <=> promised'[1] # Nothing
  BY <1>2, <1>6, <1>7, WordIsSomething
<1>10. valids'[1] => rdata' = promised'[1]
  BY <1>6, <1>7, <1>8
<1>11. /\ valids'[2] <=> promised'[2] # Nothing
       /\ valids'[2] => rspData' = promised'[2]
  BY <1>6, <1>7 DEF Pipeline, Cycle
<1> QED
  BY <1>4, <1>5, <1>6, <1>9, <1>10, <1>11 DEF Pipeline

\* Whatever commands follow each other: two cycles later each read, and nothing
\* else, is answered with the bytes last written to its address before it.
THEOREM ReadsCorrect ==
  ASSUME Shape
  PROVE  MemorySpec => []ReadsLastWritten
<1>1. MemoryInit => Pipeline
  BY PipelineInit
<1>2. Pipeline /\ [MemoryNext]_memoryVars => Pipeline'
  <2> SUFFICES ASSUME Pipeline, [MemoryNext]_memoryVars PROVE Pipeline'
    OBVIOUS
  <2>1. CASE MemoryNext
    BY <2>1, PipelineStep DEF MemoryNext
  <2>2. CASE UNCHANGED memoryVars
    BY <2>2 DEF Pipeline, memoryVars, memoryRegisters
  <2> QED
    BY <2>1, <2>2
<1>3. Pipeline => ReadsLastWritten
  BY DEF Pipeline, ReadsLastWritten
<1> QED
  BY <1>1, <1>2, <1>3, PTL DEF MemorySpec

-----------------------------------------------------------------------------
(***************************************************************************)
(* The SPI bridge.  Every exchanged byte is answered whole, in order, and  *)
(* never to a client before its own: for every number of clients and bytes,*)
(* every byte, and every interleaving of the accepting thread with the     *)
(* simulation's.                                                           *)
(***************************************************************************)
Statements == {"sleep", "loop", "fetch", "read", "shift", "deselect", "write"}
Exchanging == {"shift", "deselect"}

-----------------------------------------------------------------------------
(* The inductive invariant.                                                *)

ServerTypes ==
  /\ connections \in 0..MaxClients /\ storing \in BOOLEAN
  /\ inputStream \in 0..connections /\ outputStream = connections
ClientTypes == sent \in [Client -> Seq(Bytes)] /\ closed \in [Client -> BOOLEAN]
ThreadTypes ==
  /\ at \in Statements /\ from \in 0..connections
  /\ out \in Seq({0, 1}) /\ (at \in Exchanging => buffer \in Bytes)
SlaveTypes ==
  /\ shifter \in Bytes /\ wanted \in Seq(Bytes)
  /\ received \in Seq([from : Client, byte : Bytes])
  /\ ss \in BOOLEAN
AnswerTypes == answers \in Seq([from : Client, to : 0..MaxClients, byte : Bytes])
BridgeTypes == ServerTypes /\ ClientTypes /\ ThreadTypes /\ SlaveTypes /\ AnswerTypes

(* The thread exchanges bytes only of clients that there are.              *)
FromInv ==
  /\ at = "fetch" => inputStream # 0
  /\ at \in {"read", "shift", "deselect", "write"} => from # 0
  /\ ss <=> at \notin Exchanging

(* The byte in flight: n bits of it are in the shift register, behind the  *)
(* rest of the byte w that the slave was given, whose first n are out.     *)
Halfway(n, w) ==
  /\ n \in 0..BitsOfByte
  /\ \A i \in 1..BitsOfByte - n : shifter[i] = w[i + n]
  /\ \A i \in 1..n : shifter[i + (BitsOfByte - n)] = buffer[i] /\ out[i] = w[i]
LastWanted == wanted[Len(wanted)]
ShiftInv ==
  /\ Len(wanted) = Len(received) + 1
  /\ at \in Exchanging => Halfway(Len(out), LastWanted)
  /\ at = "shift" => Len(out) < BitsOfByte
  /\ at = "deselect" => Len(out) = BitsOfByte
  /\ at \notin Exchanging => shifter = LastWanted
  /\ at = "write" => /\ Len(received) > 0 /\ out = wanted[Len(received)]
                     /\ received[Len(received)].from = from

(* The answers so far.                                                     *)
Answered(i) ==
  /\ answers[i].byte = wanted[i] /\ answers[i].from = received[i].from
  /\ answers[i].to # 0 => answers[i].to >= answers[i].from
  /\ answers[i].to = 0 => closed[answers[i].from] \/ answers[i].from < connections
AnswersInv ==
  /\ Len(answers) = Len(received) - (IF at = "write" THEN 1 ELSE 0)
  /\ \A i \in 1..Len(answers) : Answered(i)

BridgeInv == BridgeTypes /\ FromInv /\ ShiftInv /\ AnswersInv

-----------------------------------------------------------------------------
(* Bytes as sequences of bits.                                             *)

LEMMA ByteIsSeq ==
  ASSUME NEW b \in Bytes
  PROVE  b \in Seq({0, 1}) /\ Len(b) = 8 /\ \A i \in 1..8 : b[i] \in {0, 1}
<1> DEFINE c == [i \in 1..8 |-> b[i]]
<1>1. b \in [1..8 -> {0, 1}]
  BY DEF Bytes, BitsOfByte
<1>2. b = c /\ \A i \in 1..8 : b[i] \in {0, 1}
  BY <1>1
<1>3. c \in Seq({0, 1}) /\ Len(c) = 8
  BY <1>2
<1> QED
  BY <1>2, <1>3

LEMMA SeqIsByte ==
  ASSUME NEW b \in Seq({0, 1}), Len(b) = 8
  PROVE  b \in Bytes
BY LenProperties DEF Bytes, BitsOfByte

LEMMA SameBits ==
  ASSUME NEW a \in Bytes, NEW b \in Bytes, \A i \in 1..8 : a[i] = b[i]
  PROVE  a = b
BY DEF Bytes, BitsOfByte

LEMMA EndIsByte == EndOfStream \in Bytes
BY BytesAssumption DEF Bytes

LEMMA ShiftedSeq ==
  ASSUME NEW S, NEW s \in Seq(S), NEW m \in Nat, Len(s) = m + 1, NEW e \in S
  PROVE  /\ Append(Tail(s), e) \in Seq(S) /\ Len(Append(Tail(s), e)) = m + 1
         /\ Append(Tail(s), e)[m + 1] = e
         /\ \A i \in 1..m : Append(Tail(s), e)[i] = s[i + 1]
         /\ Head(s) = s[1]
<1>1. s # <<>> /\ Head(s) = s[1]
  OBVIOUS
<1> DEFINE t == Tail(s)
<1>2. t \in Seq(S) /\ Len(t) = m /\ \A i \in 1..m : t[i] = s[i + 1]
  <2>1. t \in Seq(S) /\ Len(t) = Len(s) - 1 /\ \A i \in 1..Len(t) : t[i] = s[i + 1]
    BY <1>1, HeadTailProperties
  <2>2. Len(t) = m
    BY <2>1
  <2> QED
    BY <2>1, <2>2
<1> HIDE DEF t
<1>3. /\ Append(t, e) \in Seq(S) /\ Len(Append(t, e)) = m + 1
      /\ Append(t, e)[m + 1] = e /\ \A i \in 1..m : Append(t, e)[i] = t[i]
  BY <1>2, AppendProperties
<1> QED
  BY <1>1, <1>2, <1>3 DEF t

LEMMA ShiftedByte ==
  ASSUME NEW b \in Bytes, NEW pin \in {0, 1}
  PROVE  /\ Append(Tail(b), pin) \in Bytes
         /\ Append(Tail(b), pin)[8] = pin
         /\ \A i \in 1..7 : Append(Tail(b), pin)[i] = b[i + 1]
         /\ Head(b) = b[1]
<1> DEFINE S == {0, 1}
<1>1. b \in Seq(S) /\ Len(b) = 8 /\ pin \in S
  BY ByteIsSeq
<1>2. \A r \in Seq(S) : Len(r) = 8 => r \in Bytes
  BY SeqIsByte
<1> DEFINE a == Append(Tail(b), pin)
           m == 7
<1>3. m \in Nat /\ m + 1 = 8
  OBVIOUS
<1>4. Len(b) = m + 1
  BY <1>1
<1> HIDE DEF S, m
<1>5. a \in Seq(S) /\ Len(a) = m + 1 /\ a[m + 1] = pin /\ Head(b) = b[1]
      /\ \A i \in 1..m : a[i] = b[i + 1]
  BY <1>1, <1>3, <1>4, ShiftedSeq
<1> HIDE DEF a
<1>6. a \in Bytes /\ a[8] = pin
  BY <1>2, <1>3, <1>5
<1> QED
  BY <1>5, <1>6 DEF a, m

-----------------------------------------------------------------------------
LEMMA InitInv == ASSUME BridgeInit PROVE BridgeInv
<1>1. /\ connections = 0 /\ storing = FALSE /\ inputStream = 0 /\ outputStream = 0
      /\ at = "sleep" /\ from = 0 /\ buffer = <<>> /\ out = <<>> /\ ss = TRUE
      /\ received = <<>> /\ answers = <<>>
      /\ sent = [c \in Client |-> <<>>] /\ closed = [c \in Client |-> FALSE]
  BY DEF BridgeInit
<1>2. PICK p \in Bytes : shifter = p /\ wanted = <<p>>
  BY BytesAssumption DEF BridgeInit
<1>3. BridgeTypes
  <2>1. ServerTypes
    <3>1. connections \in 0..MaxClients /\ inputStream \in 0..connections
      BY <1>1, ClientsAssumption
    <3> QED
      BY <1>1, <3>1 DEF ServerTypes
  <2>2. ClientTypes
    <3>1. <<>> \in Seq(Bytes)
      OBVIOUS
    <3> QED
      BY <1>1, <3>1 DEF ClientTypes
  <2>3. ThreadTypes
    BY <1>1 DEF ThreadTypes, Statements, Exchanging
  <2>4. wanted \in Seq(Bytes)
    BY <1>2
  <2>5. SlaveTypes /\ AnswerTypes
    BY <1>1, <1>2, <2>4 DEF SlaveTypes, AnswerTypes
  <2> QED
    BY <2>1, <2>2, <2>3, <2>5 DEF BridgeTypes
<1>4. FromInv /\ AnswersInv
  BY <1>1 DEF FromInv, AnswersInv, Exchanging
<1>5. ShiftInv
  <2>1. Len(wanted) = 1 /\ wanted[1] = p /\ Len(received) = 0
    BY <1>1, <1>2
  <2> QED
    BY <1>1, <1>2, <2>1 DEF ShiftInv, LastWanted, Exchanging
<1> QED
  BY <1>3, <1>4, <1>5 DEF BridgeInv

(* What the server and the clients do leaves the byte in flight alone, and *)
(* what they change goes one way: connections, and the closed streams.     *)
LEMMA OthersKeep ==
  ASSUME BridgeInv, UNCHANGED <<threadVars, slaveVars, answers>>,
         connections' \in Int, connections' >= connections,
         \A c \in Client : closed[c] => closed'[c]
  PROVE  ShiftInv' /\ AnswersInv'
<1>1. /\ UNCHANGED <<at, from, buffer, out, ss, shifter, wanted, received, answers>>
      /\ ShiftInv /\ AnswersInv /\ connections \in Int
      /\ answers \in Seq([from : Client, to : 0..MaxClients, byte : Bytes])
  BY DEF BridgeInv, BridgeTypes, ServerTypes, AnswerTypes, threadVars, slaveVars
<1>2. ShiftInv'
  BY <1>1 DEF ShiftInv, Halfway, LastWanted
<1>3. ASSUME NEW i \in 1..Len(answers) PROVE Answered(i)'
  <2>1. answers[i] \in [from : Client, to : 0..MaxClients, byte : Bytes]
    BY <1>1, ElementOfSeq
  <2>2. Answered(i) /\ answers[i].from \in Client /\ answers[i].from \in Int
    BY <1>1, <2>1, ClientsAssumption DEF AnswersInv, Client
  <2> QED
    BY <1>1, <2>2 DEF Answered
<1> QED
  BY <1>1, <1>2, <1>3 DEF AnswersInv

LEMMA ServerStep == ASSUME BridgeInv, Server PROVE BridgeInv'
<1>1. /\ BridgeTypes /\ FromInv /\ connections \in Nat /\ connections <= MaxClients
      /\ inputStream \in 0..connections /\ outputStream = connections /\ MaxClients \in Nat
      /\ UNCHANGED <<clientVars, threadVars, slaveVars, answers>>
  BY ClientsAssumption DEF BridgeInv, BridgeTypes, ServerTypes, Server, Accept, Stored
<1>2. UNCHANGED <<sent, closed, at, from, buffer, out, ss, shifter, wanted, received, answers>>
  BY <1>1 DEF clientVars, threadVars, slaveVars
<1>3. /\ connections' \in Nat /\ connections' <= MaxClients /\ connections' >= connections
      /\ storing' \in BOOLEAN /\ outputStream' = connections'
      /\ inputStream' \in 0..connections' /\ (inputStream # 0 => inputStream' # 0)
  <2>1. CASE Accept
    BY <1>1, <2>1 DEF Accept, StoresOutput
  <2>2. CASE Stored
    <3>1. /\ storing' = FALSE /\ connections' = connections
          /\ inputStream' = connections /\ outputStream' = connections
      BY <2>2 DEF Stored
    <3>2. connections' \in Nat /\ connections' <= MaxClients /\ connections' >= connections
      BY <1>1, <3>1
    <3>3. inputStream' \in 0..connections' /\ (inputStream # 0 => inputStream' # 0)
      BY <1>1, <3>1
    <3> QED
      BY <3>1, <3>2, <3>3
  <2> QED
    BY <2>1, <2>2 DEF Server
<1>4. ServerTypes' /\ ClientTypes' /\ SlaveTypes' /\ AnswerTypes'
  BY <1>1, <1>2, <1>3 DEF BridgeTypes, ServerTypes, ClientTypes, SlaveTypes, AnswerTypes
<1>5. ThreadTypes' /\ FromInv'
  BY <1>1, <1>2, <1>3 DEF BridgeTypes, ThreadTypes, FromInv
<1>6. ShiftInv' /\ AnswersInv'
  BY <1>1, <1>2, <1>3, OthersKeep
<1> QED
  BY <1>4, <1>5, <1>6 DEF BridgeInv, BridgeTypes

LEMMA ClientStep ==
  ASSUME BridgeInv, NEW c \in Client, Sends(c) \/ Closes(c)
  PROVE  BridgeInv'
<1>1. /\ BridgeTypes /\ FromInv /\ ClientTypes
      /\ UNCHANGED <<serverVars, threadVars, slaveVars, answers>>
  BY DEF BridgeInv, BridgeTypes, Sends, Closes
<1>2. UNCHANGED <<connections, storing, inputStream, outputStream,
                  at, from, buffer, out, ss, shifter, wanted, received, answers>>
  BY <1>1 DEF serverVars, threadVars, slaveVars
<1>3. sent' \in [Client -> Seq(Bytes)]
  <2>1. CASE Sends(c)
    <3>1. PICK p \in Bytes : sent' = [sent EXCEPT ![c] = Append(@, p)]
      BY <2>1, BytesAssumption DEF Sends
    <3>2. Append(sent[c], p) \in Seq(Bytes)
      BY <1>1, <3>1 DEF ClientTypes
    <3> QED
      BY <1>1, <3>1, <3>2 DEF ClientTypes
  <2>2. CASE Closes(c)
    BY <1>1, <2>2 DEF Closes, ClientTypes
  <2> QED
    BY <2>1, <2>2
<1>4. closed' \in [Client -> BOOLEAN] /\ \A d \in Client : closed[d] => closed'[d]
  BY <1>1 DEF Sends, Closes, ClientTypes
<1>5. BridgeTypes' /\ FromInv'
  BY <1>1, <1>2, <1>3, <1>4
  DEF BridgeTypes, ServerTypes, ClientTypes, ThreadTypes, SlaveTypes, AnswerTypes, FromInv
<1>6. connections' \in Int /\ connections' >= connections
  BY <1>1, <1>2 DEF BridgeTypes, ServerTypes
<1> QED
  BY <1>1, <1>4, <1>5, <1>6, OthersKeep DEF BridgeInv

-----------------------------------------------------------------------------
(* The simulation's thread.                                                *)

(* Steps of the thread before the exchange: from, and the statement.       *)
LEMMA LooksStep == ASSUME BridgeInv, Looks \/ Fetches PROVE BridgeInv'
<1>1. /\ BridgeTypes /\ FromInv /\ ShiftInv /\ AnswersInv
      /\ UNCHANGED <<connections, storing, inputStream, outputStream, sent, closed,
                     buffer, out, ss, shifter, wanted, received, answers>>
  BY DEF BridgeInv, Looks, Fetches, serverVars, clientVars, slaveVars
<1>2. /\ at \in {"sleep", "loop", "fetch"} /\ at' \in {"sleep", "fetch", "read"}
      /\ at' = "fetch" => inputStream # 0
      /\ at' = "read" => from' # 0
      /\ from' \in 0..connections
  BY <1>1 DEF Looks, Fetches, Available, FromInv, BridgeTypes, ServerTypes, ThreadTypes
<1>3. BridgeTypes' /\ FromInv'
  BY <1>1, <1>2
  DEF BridgeTypes, ServerTypes, ClientTypes, ThreadTypes, SlaveTypes, AnswerTypes, FromInv,
      Statements, Exchanging
<1>4. ShiftInv'
  BY <1>1, <1>2 DEF ShiftInv, LastWanted, Exchanging
<1>5. AnswersInv'
  BY <1>1, <1>2 DEF AnswersInv, Answered
<1> QED
  BY <1>3, <1>4, <1>5 DEF BridgeInv

LEMMA ReadsStep == ASSUME BridgeInv, ReadsByte PROVE BridgeInv'
<1>1. /\ BridgeTypes /\ FromInv /\ ShiftInv /\ AnswersInv /\ at = "read"
      /\ at' = "shift" /\ out' = <<>> /\ ss' = FALSE
      /\ UNCHANGED <<connections, storing, inputStream, outputStream, closed, from,
                     shifter, wanted, received, answers>>
  BY DEF BridgeInv, ReadsByte, serverVars
<1>2. from \in Client /\ sent \in [Client -> Seq(Bytes)]
  BY <1>1, ClientsAssumption
  DEF BridgeTypes, ServerTypes, ThreadTypes, ClientTypes, FromInv, Client
<1>3. buffer' \in Bytes /\ sent' \in [Client -> Seq(Bytes)]
  <2>1. CASE sent[from] = <<>>
    BY <1>2, <2>1, EndIsByte DEF ReadsByte
  <2>2. CASE sent[from] # <<>>
    <3>1. Head(sent[from]) \in Bytes /\ Tail(sent[from]) \in Seq(Bytes)
      BY <1>2, <2>2
    <3> QED
      BY <1>2, <2>2, <3>1 DEF ReadsByte
  <2> QED
    BY <2>1, <2>2
<1>4. BridgeTypes' /\ FromInv'
  <2>1. ServerTypes' /\ ClientTypes' /\ AnswerTypes'
    BY <1>1, <1>3 DEF BridgeTypes, ServerTypes, ClientTypes, AnswerTypes
  <2>2. ThreadTypes'
    BY <1>1, <1>3 DEF BridgeTypes, ThreadTypes, Statements
  <2>3. SlaveTypes'
    BY <1>1 DEF BridgeTypes, SlaveTypes
  <2>4. FromInv'
    BY <1>1 DEF FromInv, Exchanging
  <2> QED
    BY <2>1, <2>2, <2>3, <2>4 DEF BridgeTypes
<1>5. ShiftInv'
  <2>1. Len(out') = 0 /\ shifter' = LastWanted'
    BY <1>1 DEF ShiftInv, Exchanging, LastWanted
  <2>2. Halfway(Len(out), LastWanted)'
    BY <2>1 DEF Halfway, BitsOfByte
  <2> QED
    BY <1>1, <2>1, <2>2 DEF ShiftInv, Exchanging, BitsOfByte
<1>6. AnswersInv'
  BY <1>1 DEF AnswersInv, Answered
<1> QED
  BY <1>4, <1>5, <1>6 DEF BridgeInv

LEMMA ShiftsStep == ASSUME BridgeInv, Shifts PROVE BridgeInv'
<1> DEFINE n == Len(out)
           w == LastWanted
           pin == buffer[n + 1]
<1>1. /\ BridgeTypes /\ FromInv /\ ShiftInv /\ AnswersInv /\ at = "shift"
      /\ out' = Append(out, Head(shifter)) /\ shifter' = Append(Tail(shifter), pin)
      /\ at' = IF Len(out') = 8 THEN "deselect" ELSE "shift"
      /\ UNCHANGED <<connections, storing, inputStream, outputStream, sent, closed,
                     from, buffer, ss, wanted, received, answers>>
  BY DEF BridgeInv, Shifts, Samples, BitsOfByte, serverVars, clientVars
<1>2. /\ buffer \in Bytes /\ shifter \in Bytes /\ out \in Seq({0, 1})
      /\ n \in 0..7 /\ Halfway(n, w)
  <2>1. buffer \in Bytes /\ shifter \in Bytes /\ out \in Seq({0, 1})
    BY <1>1 DEF BridgeTypes, ThreadTypes, SlaveTypes, Exchanging
  <2>2. Halfway(n, w) /\ n < 8
    BY <1>1 DEF ShiftInv, Exchanging, BitsOfByte
  <2>3. n \in 0..8
    BY <2>2 DEF Halfway, BitsOfByte
  <2> HIDE DEF n
  <2> QED
    BY <2>1, <2>2, <2>3
<1>3. pin \in {0, 1}
  <2>1. n \in 0..7
    BY <1>2
  <2> HIDE DEF n
  <2>2. n + 1 \in 1..8
    BY <2>1
  <2> QED
    BY <1>2, <2>2, ByteIsSeq
<1>4. /\ shifter' \in Bytes /\ shifter'[8] = pin /\ Head(shifter) = shifter[1]
      /\ \A i \in 1..7 : shifter'[i] = shifter[i + 1]
  BY <1>1, <1>2, <1>3, ShiftedByte
<1>5. /\ out' \in Seq({0, 1}) /\ Len(out') = n + 1 /\ out'[n + 1] = shifter[1]
      /\ \A i \in 1..n : out'[i] = out[i]
  <2>1. shifter[1] \in {0, 1}
    BY <1>2, ByteIsSeq
  <2> QED
    BY <1>1, <1>2, <1>4, <2>1
<1>6. at' \in {"shift", "deselect"} /\ w' = w
  BY <1>1 DEF LastWanted
<1>7. BridgeTypes' /\ FromInv'
  BY <1>1, <1>2, <1>4, <1>5, <1>6
  DEF BridgeTypes, ServerTypes, ClientTypes, ThreadTypes, SlaveTypes, AnswerTypes, FromInv,
      Statements, Exchanging
<1>8. Halfway(Len(out), LastWanted)'
  <2> HIDE DEF n, w
  <2>1. \A i \in 1..8 - n : shifter[i] = w[i + n]
    BY <1>2 DEF Halfway, BitsOfByte
  <2>2. \A i \in 1..n : shifter[i + (8 - n)] = buffer[i] /\ out[i] = w[i]
    BY <1>2 DEF Halfway, BitsOfByte
  <2>3. ASSUME NEW i \in 1..8 - (n + 1)
        PROVE  shifter'[i] = w[i + (n + 1)]
    <3>1. i \in 1..7 /\ i + 1 \in 1..8 - n /\ (i + 1) + n = i + (n + 1)
      BY <1>2
    <3> QED
      BY <1>4, <2>1, <3>1
  <2>4. ASSUME NEW i \in 1..n + 1
        PROVE  shifter'[i + (8 - (n + 1))] = buffer[i] /\ out'[i] = w[i]
    <3>1. CASE i = n + 1
      <4>1. i + (8 - (n + 1)) = 8 /\ 1 \in 1..8 - n /\ 1 + n = n + 1
        BY <1>2, <3>1
      <4> QED
        BY <1>4, <1>5, <2>1, <3>1, <4>1
    <3>2. CASE i # n + 1
      <4>1. /\ i \in 1..n /\ i + (8 - (n + 1)) \in 1..7
            /\ (i + (8 - (n + 1))) + 1 = i + (8 - n)
        BY <1>2, <3>2
      <4> QED
        BY <1>4, <1>5, <2>2, <4>1
    <3> QED
      BY <3>1, <3>2
  <2>5. buffer' = buffer /\ LastWanted' = w /\ n + 1 \in 0..8
    BY <1>1, <1>2, <1>6 DEF w
  <2> QED
    BY <1>5, <2>3, <2>4, <2>5 DEF Halfway, BitsOfByte
<1>9. ShiftInv'
  BY <1>1, <1>2, <1>5, <1>6, <1>8 DEF ShiftInv, Exchanging, BitsOfByte
<1>10. AnswersInv'
  BY <1>1, <1>6 DEF AnswersInv, Answered
<1> QED
  BY <1>7, <1>9, <1>10 DEF BridgeInv

(* When all bits have moved, the registers have changed places.            *)
LEMMA Exchanged ==
  ASSUME BridgeInv, at = "deselect"
  PROVE  shifter = buffer /\ out = LastWanted
<1>1. /\ shifter \in Bytes /\ buffer \in Bytes /\ out \in Seq({0, 1}) /\ Len(out) = 8
      /\ LastWanted \in Bytes /\ Halfway(8, LastWanted)
  <2>1. /\ shifter \in Bytes /\ buffer \in Bytes /\ out \in Seq({0, 1}) /\ wanted \in Seq(Bytes)
        /\ received \in Seq([from : Client, byte : Bytes])
    BY DEF BridgeInv, BridgeTypes, ThreadTypes, SlaveTypes, Exchanging
  <2>2. Len(out) = 8 /\ Halfway(Len(out), LastWanted) /\ Len(wanted) = Len(received) + 1
    BY DEF BridgeInv, ShiftInv, Exchanging, BitsOfByte
  <2>3. Len(wanted) \in 1..Len(wanted)
    BY <2>1, <2>2
  <2>4. LastWanted \in Bytes
    BY <2>1, <2>3 DEF LastWanted
  <2> QED
    BY <2>1, <2>2, <2>4
<1>2. \A i \in 1..8 : shifter[i] = buffer[i] /\ out[i] = LastWanted[i]
  BY <1>1 DEF Halfway, BitsOfByte
<1> QED
  BY <1>1, <1>2, SameBits, SeqIsByte

LEMMA DeselectsStep == ASSUME BridgeInv, Deselects PROVE BridgeInv'
<1>1. /\ BridgeTypes /\ FromInv /\ ShiftInv /\ AnswersInv /\ at = "deselect"
      /\ at' = "write" /\ ss' = TRUE
      /\ received' = Append(received, [from |-> from, byte |-> shifter])
      /\ UNCHANGED <<connections, storing, inputStream, outputStream, sent, closed,
                     from, buffer, out, answers>>
  BY DEF BridgeInv, Deselects, serverVars, clientVars
<1>2. PICK p \in Bytes : shifter' = p /\ wanted' = Append(wanted, p)
  BY BytesAssumption DEF Deselects
<1>3. /\ from \in Client /\ from # 0 /\ out = LastWanted
      /\ received \in Seq([from : Client, byte : Bytes]) /\ wanted \in Seq(Bytes)
      /\ shifter \in Bytes /\ answers \in Seq([from : Client, to : 0..MaxClients, byte : Bytes])
  BY <1>1, Exchanged, ClientsAssumption
  DEF BridgeTypes, ServerTypes, ThreadTypes, SlaveTypes, AnswerTypes, FromInv, Client
<1> DEFINE l == Len(received)
           r == [from |-> from, byte |-> shifter]
<1>4. /\ l \in Nat /\ Len(received') = l + 1 /\ received'[l + 1] = r
      /\ received' \in Seq([from : Client, byte : Bytes])
      /\ \A i \in 1..l : received'[i] = received[i]
  <2>1. r \in [from : Client, byte : Bytes]
    BY <1>3
  <2> HIDE DEF r
  <2> QED
    BY <1>1, <1>3, <2>1 DEF r
<1>5. /\ Len(wanted') = l + 2 /\ wanted'[l + 2] = p /\ wanted'[l + 1] = LastWanted
      /\ wanted' \in Seq(Bytes) /\ \A i \in 1..l + 1 : wanted'[i] = wanted[i]
  <2>1. Len(wanted) = l + 1 /\ l \in Nat
    BY <1>1, <1>3 DEF ShiftInv
  <2> HIDE DEF l
  <2> QED
    BY <1>2, <1>3, <2>1 DEF LastWanted
<1>6. BridgeTypes' /\ FromInv'
  BY <1>1, <1>2, <1>3, <1>4, <1>5
  DEF BridgeTypes, ServerTypes, ClientTypes, ThreadTypes, SlaveTypes, AnswerTypes, FromInv,
      Statements, Exchanging
<1>7. ShiftInv'
  <2> HIDE DEF l
  <2>1. LastWanted' = p
    BY <1>5 DEF LastWanted
  <2> QED
    BY <1>1, <1>2, <1>3, <1>4, <1>5, <2>1 DEF ShiftInv, Exchanging
<1>8. AnswersInv'
  <2>1. Len(answers') = l /\ Len(received') - 1 = l
    BY <1>1, <1>3, <1>4 DEF AnswersInv
  <2>2. ASSUME NEW i \in 1..l PROVE Answered(i)'
    <3>1. Answered(i) /\ received'[i] = received[i] /\ wanted'[i] = wanted[i]
      BY <1>1, <1>3, <1>4, <1>5 DEF AnswersInv
    <3> QED
      BY <1>1, <3>1 DEF Answered
  <2> QED
    BY <1>1, <2>1, <2>2 DEF AnswersInv
<1> QED
  BY <1>6, <1>7, <1>8 DEF BridgeInv

LEMMA WritesStep == ASSUME BridgeInv, WritesReply PROVE BridgeInv'
<1>1. /\ BridgeTypes /\ FromInv /\ ShiftInv /\ AnswersInv /\ at = "write"
      /\ at' \in {"loop", "sleep"} /\ from' = 0
      /\ UNCHANGED <<connections, storing, inputStream, outputStream, sent, closed,
                     buffer, out, ss, shifter, wanted, received>>
  BY DEF BridgeInv, WritesReply, AfterFailure, serverVars, clientVars, slaveVars
<1> DEFINE l == Len(received)
<1>2. /\ from \in Client /\ from \in 1..connections /\ connections \in 0..MaxClients
      /\ outputStream = connections /\ MaxClients \in Nat
      /\ received \in Seq([from : Client, byte : Bytes]) /\ wanted \in Seq(Bytes)
      /\ answers \in Seq([from : Client, to : 0..MaxClients, byte : Bytes])
  BY <1>1, ClientsAssumption
  DEF BridgeTypes, ServerTypes, ThreadTypes, SlaveTypes, AnswerTypes, FromInv, Client
<1>3. /\ l \in Nat /\ l > 0 /\ out = wanted[l] /\ received[l].from = from
      /\ Len(answers) = l - 1 /\ Len(wanted) = l + 1
  BY <1>1, <1>2 DEF ShiftInv, AnswersInv
<1>4. out \in Bytes
  BY <1>2, <1>3
<1>5. PICK to \in 0..MaxClients :
        /\ answers' = Append(answers, [from |-> from, to |-> to, byte |-> out])
        /\ to # 0 => to >= from
        /\ to = 0 => closed[from] \/ from < connections
  <2>1. CASE outputStream # 0 /\ answers' = Append(answers, [from |-> from, to |-> outputStream, byte |-> out])
    BY <1>2, <2>1
  <2>2. CASE Fails /\ answers' = Append(answers, [from |-> from, to |-> 0, byte |-> out])
    <3>1. closed[outputStream]
      BY <1>2, <2>2 DEF Fails
    <3>2. closed[from] \/ from < connections
      BY <1>2, <3>1
    <3> QED
      BY <1>2, <2>2, <3>2
  <2> QED
    BY <2>1, <2>2 DEF WritesReply
<1> DEFINE a == [from |-> from, to |-> to, byte |-> out]
<1>6. a \in [from : Client, to : 0..MaxClients, byte : Bytes]
  BY <1>2, <1>4
<1>7. /\ answers' \in Seq([from : Client, to : 0..MaxClients, byte : Bytes])
      /\ Len(answers') = l /\ answers'[l] = a /\ \A i \in 1..l - 1 : answers'[i] = answers[i]
  <2> HIDE DEF a, l
  <2> QED
    BY <1>2, <1>3, <1>5, <1>6 DEF a
<1>8. BridgeTypes' /\ FromInv'
  BY <1>1, <1>2, <1>7
  DEF BridgeTypes, ServerTypes, ClientTypes, ThreadTypes, SlaveTypes, AnswerTypes, FromInv,
      Statements, Exchanging
<1>9. ShiftInv'
  BY <1>1 DEF ShiftInv, Exchanging, LastWanted
<1>10. AnswersInv'
  <2>1. ASSUME NEW i \in 1..l PROVE Answered(i)'
    <3>1. CASE i = l
      BY <1>1, <1>3, <1>5, <1>7, <3>1 DEF Answered
    <3>2. CASE i # l
      <4>1. i \in 1..l - 1
        BY <1>3, <3>2
      <4>2. Answered(i) /\ answers'[i] = answers[i]
        BY <1>1, <1>3, <1>7, <4>1 DEF AnswersInv
      <4> QED
        BY <1>1, <4>2 DEF Answered
    <3> QED
      BY <3>1, <3>2
  <2> QED
    BY <1>1, <1>2, <1>3, <1>7, <2>1 DEF AnswersInv
<1> QED
  BY <1>8, <1>9, <1>10 DEF BridgeInv

LEMMA StutterInv == ASSUME BridgeInv, UNCHANGED bridgeVars PROVE BridgeInv'
BY DEF BridgeInv, BridgeTypes, ServerTypes, ClientTypes, ThreadTypes, SlaveTypes, AnswerTypes,
  FromInv, ShiftInv, Halfway, LastWanted, AnswersInv, Answered,
  bridgeVars, serverVars, clientVars, threadVars, slaveVars

LEMMA Inductive == BridgeSpec => []BridgeInv
<1>1. BridgeInv /\ [BridgeNext]_bridgeVars => BridgeInv'
  BY ServerStep, ClientStep, LooksStep, ReadsStep, ShiftsStep, DeselectsStep, WritesStep, StutterInv
  DEF BridgeNext, Thread
<1> QED
  BY <1>1, InitInv, PTL DEF BridgeSpec

-----------------------------------------------------------------------------
(* Every byte that the simulation exchanges with the slave is answered     *)
(* once, in order and whole, to the client that sent it or a later one,    *)
(* whenever clients come and go between the statements of the thread.      *)
THEOREM AnswersGoForward == BridgeSpec => []AnswersForward
<1>1. BridgeInv => AnswersForward
  <2> SUFFICES ASSUME BridgeInv PROVE AnswersForward
    OBVIOUS
  <2>1. AnswersInv /\ FromInv /\ DOMAIN answers = 1..Len(answers)
    BY DEF BridgeInv, BridgeTypes, AnswerTypes
  <2>2. at = "deselect" => shifter = buffer
    BY Exchanged
  <2> QED
    BY <2>1, <2>2 DEF AnswersForward, AnswersInv, Answered, FromInv, Exchanging
<1> QED
  BY <1>1, Inductive, PTL

-----------------------------------------------------------------------------
(* The console.  Sender and receiver have clocks of different lengths.     *)
(* What ties them is that inside a byte both have run for the same time    *)
(* since its start bit (SentFor = ReceivedFor); RightBit then is the       *)
(* arithmetic of ten bits: every sample is taken inside the bit it is      *)
(* meant for, and the receiver is done with a byte before the sender is.   *)

BitsOfFrame == 10
Stages == {"wait", "start", "data", "stop"}
ConsoleTypes ==
  /\ direction \in {"print", "type"} /\ written \in 0..Len(Text)
  /\ queue \in Seq(SUBSET (0..7)) /\ frame \in Seq(BOOLEAN) /\ line \in BOOLEAN
  /\ txAt \in Int /\ rxAt \in Int /\ exitAt \in Int
  /\ rx \in Stages /\ byte \in SUBSET (0..7) /\ bit \in 0..8
  /\ got \in Seq(SUBSET (0..7)) /\ errors \in Int

(* The bytes that have left the queue, and the one being sent.             *)
Taken == written - Len(queue)
Current == Text[Taken]
QueueInv ==
  /\ Len(queue) <= written /\ \A i \in 1..Len(queue) : queue[i] = Text[Taken + i]
  /\ direction = "print" => Len(queue) <= FifoDepth
FrameInv ==
  IF Sending
  THEN /\ Taken > 0 /\ Len(frame) <= BitsOfFrame /\ txAt \in 0..SendBit
       /\ \A i \in 1..Len(frame) : frame[i] = Bits(Current)[(BitsOfFrame - Len(frame)) + i]
       /\ line = frame[1]
  ELSE queue = << >> /\ line = TRUE /\ txAt = Never
GotInv ==
  /\ Len(got) = IF Sending /\ (rx # "wait" \/ Len(frame) > 1) THEN Taken - 1 ELSE Taken
  /\ \A i \in 1..Len(got) : got[i] = Text[i]
  /\ errors = 0

(* How long the sender and the receiver have been at this byte.            *)
SentFor == (11 - Len(frame)) * SendBit - txAt
Sample == IF rx = "start" THEN 0 ELSE bit + 1
ReceivedFor == HalfBit + Sample * ReceiveBit - rxAt
ReceiverInv ==
  IF rx = "wait"
  THEN rxAt = Never /\ (Sending => Len(frame) = 1 \/ (Len(frame) = BitsOfFrame /\ txAt = SendBit))
  ELSE /\ Sending /\ rxAt \in 0..ReceiveBit /\ SentFor = ReceivedFor
       /\ rx = "data" => bit \in 0..7
       /\ rx = "stop" => bit = 8
       /\ rx # "start" => \A n \in 0..7 : n \in byte <=> n < bit /\ n \in Current
(* How long the sender still needs: the end must be later.                 *)
Remaining == (BitsOfFrame * Len(queue) + Len(frame) - 1) * SendBit + txAt
ExitInv ==
  exitAt # Never =>
    exitAt >= 0 /\ direction = "print" /\ written = Len(Text) /\ (Sending => exitAt > Remaining)
ConsoleInv == ConsoleTypes /\ QueueInv /\ FrameInv /\ GotInv /\ ReceiverInv /\ ExitInv

-----------------------------------------------------------------------------
(* The bit times, in sixths of a clock cycle.                              *)
LEMMA BitTimes ==
  ASSUME direction \in {"print", "type"}
  PROVE  /\ direction = "print" => SendBit = 600 /\ ReceiveBit = 625 /\ HalfBit = 312
         /\ direction = "type" => SendBit = 625 /\ ReceiveBit = 600 /\ HalfBit = 300
         /\ ExitDelay = 300000 /\ FifoDepth = 16
<1>1. UartBit = 600 /\ uartBaudPeriod = 625
  BY DEF UartBit, uartBaudPeriod, SamplesPerBit, ClockHz, Baud, Sixths
<1> QED
  BY <1>1 DEF SendBit, ReceiveBit, HalfBit, ExitDelay, Sixths, FifoDepth

LEMMA AppendedLast ==
  ASSUME NEW S, NEW s \in Seq(S), NEW x \in S
  PROVE  (s \o << x >>)[Len(s) + 1] = x
OBVIOUS

LEMMA BitsOfAByte ==
  ASSUME NEW b \in SUBSET (0..7)
  PROVE  /\ Bits(b) \in Seq(BOOLEAN) /\ Len(Bits(b)) = 10
         /\ Bits(b)[1] = FALSE /\ Bits(b)[10] = TRUE
         /\ \A n \in 0..7 : Bits(b)[n + 2] = (n \in b)
<1>1. Bits(b) \in Seq(BOOLEAN) /\ Len(Bits(b)) = 10
  BY DEF Bits
<1>2. Bits(b)[1] = FALSE
  BY DEF Bits
<1>3. ASSUME NEW n \in 0..7
      PROVE  Bits(b)[n + 2] = (n \in b)
  BY DEF Bits
<1>4. Bits(b)[10] = TRUE
  <2> DEFINE front == << FALSE >> \o [n \in 1..8 |-> n - 1 \in b]
  <2>1. front \in Seq(BOOLEAN) /\ Len(front) = 9
    OBVIOUS
  <2>2. Bits(b) = front \o << TRUE >> /\ TRUE \in BOOLEAN
    BY DEF Bits
  <2> HIDE DEF front
  <2>3. (front \o << TRUE >>)[Len(front) + 1] = TRUE
    BY <2>1, <2>2, AppendedLast, Zenon
  <2>4. Len(front) + 1 = 10
    BY <2>1
  <2> QED
    BY <2>2, <2>3, <2>4, Zenon
<1> QED
  BY <1>1, <1>2, <1>3, <1>4

LEMMA SoonestOfThree ==
  ASSUME txAt \in Int, rxAt \in Int, exitAt \in Int, Timers # {}
  PROVE  /\ Soonest \in Timers
         /\ \A t \in Timers : Soonest <= t
<1>1. \E x \in Timers : \A y \in Timers : x <= y
  BY DEF Timers
<1> QED
  BY <1>1 DEF Soonest, Min

LEMMA InitialConsole ==
  ASSUME ConsoleInit
  PROVE  ConsoleInv
<1> USE DEF ConsoleInit, Never, Sending, Taken
<1>1. ConsoleTypes
  BY TextAssumption DEF ConsoleTypes, Stages
<1>2. QueueInv
  BY DEF QueueInv, FifoDepth
<1>4. FrameInv
  BY DEF FrameInv
<1>5. GotInv
  <2>1. Len(got) = 0 /\ errors = 0
    OBVIOUS
  <2>2. Len(queue) = 0
    OBVIOUS
  <2>3. written = 0
    OBVIOUS
  <2>4. ~Sending
    OBVIOUS
  <2>5. 0 - 0 = 0 /\ \A i \in 1..0 : FALSE
    OBVIOUS
  <2>6. Taken = 0
    BY <2>2, <2>3, <2>5, Zenon
  <2> QED
    BY <2>1, <2>4, <2>5, <2>6, Zenon DEF GotInv
<1>3. ReceiverInv /\ ExitInv
  BY DEF ReceiverInv, ExitInv
<1> QED
  BY <1>1, <1>2, <1>3, <1>4, <1>5 DEF ConsoleInv

(* The numbers the invariant is about, and what they are after a step.     *)
LEMMA Numbers ==
  ASSUME ConsoleTypes
  PROVE  /\ Len(queue) \in Nat /\ Len(frame) \in Nat /\ Len(got) \in Nat
         /\ Taken \in Int /\ (Sending <=> Len(frame) # 0)
         /\ Len(Text) \in Nat /\ written \in Nat
BY TextAssumption DEF ConsoleTypes, Taken, Sending

LEMMA SameDirection ==
  ASSUME direction \in {"print", "type"}, direction' = direction
  PROVE  SendBit' = SendBit /\ ReceiveBit' = ReceiveBit /\ HalfBit' = HalfBit
BY DEF SendBit, ReceiveBit, HalfBit, UartBit, uartBaudPeriod

Times(S, R, H) ==
  \/ S = 600 /\ R = 625 /\ H = 312
  \/ S = 625 /\ R = 600 /\ H = 300

(* A sample is taken in the bit it is meant for, and a frame is not over   *)
(* before its last sample.                                                 *)
LEMMA RightBit ==
  ASSUME NEW S, NEW R, NEW H, NEW l, NEW k, NEW tx, NEW r,
         Times(S, R, H), l \in 1..10, k \in 0..9, tx \in 0..S, r \in 0..R,
         (11 - l) * S - tx = H + k * R - r
  PROVE  (r <= tx => l = 10 - k) /\ (tx <= r => l > 1)
<1>1. CASE S = 600 /\ R = 625 /\ H = 312
  BY <1>1
<1>2. CASE S = 625 /\ R = 600 /\ H = 300
  BY <1>2
<1> QED
  BY <1>1, <1>2 DEF Times

LEMMA WritesByteStep ==
  ASSUME ConsoleInv, WritesByte
  PROVE  ConsoleInv'
<1> USE DEF ConsoleInv
<1>1. /\ written' = written + 1 /\ written < Len(Text)
      /\ UNCHANGED << direction, rx, byte, bit, rxAt, got, errors, exitAt >>
      /\ exitAt = Never /\ direction \in {"print", "type"}
  BY DEF WritesByte, rxVars, ExitInv, ConsoleTypes
<1>2. SendBit' = SendBit /\ ReceiveBit' = ReceiveBit /\ HalfBit' = HalfBit /\ SendBit \in Nat
  BY <1>1, SameDirection, BitTimes
<1>3. Text[written + 1] \in SUBSET (0..7) /\ written + 1 \in 0..Len(Text) /\ written \in Nat
  BY <1>1, TextAssumption DEF ConsoleTypes
<1>4. ExitInv'
  BY <1>1 DEF ExitInv
<1>5. CASE ~Sending
  <2>1. queue = << >> /\ line = TRUE /\ rx = "wait" /\ rxAt = Never
    BY <1>5 DEF FrameInv, ReceiverInv
  <2>2. /\ frame' = Bits(Text[written + 1]) /\ line' = FALSE /\ txAt' = SendBit /\ queue' = << >>
    BY <1>5, <2>1 DEF WritesByte
  <2>3. /\ frame' \in Seq(BOOLEAN) /\ Len(frame') = 10 /\ frame'[1] = FALSE
    BY <2>2, <1>3, BitsOfAByte
  <2>4. Taken' = written + 1 /\ Taken = written
    BY <1>1, <1>3, <2>1, <2>2 DEF Taken
  <2>5. Sending' /\ Len(queue') = 0
    BY <2>2, <2>3 DEF Sending
  <2>6. ConsoleTypes'
    <3>1. queue' \in Seq(SUBSET (0..7))
      BY <2>2
    <3>2. txAt' \in Int
      BY <1>2, <2>2
    <3>3. line' \in BOOLEAN
      BY <2>2
    <3> QED
      BY <1>1, <1>3, <2>3, <3>1, <3>2, <3>3 DEF ConsoleTypes
  <2>7. QueueInv'
    BY <1>1, <1>3, <2>5, BitTimes DEF QueueInv
  <2>8. FrameInv'
    <3>1. frame' = Bits(Current') /\ Taken' > 0
      BY <1>3, <2>2, <2>4 DEF Current
    <3>2. ASSUME NEW i \in 1..Len(frame')
          PROVE  frame'[i] = Bits(Current')[(BitsOfFrame - Len(frame')) + i]
      <4>1. (BitsOfFrame - Len(frame')) + i = i
        BY <2>3 DEF BitsOfFrame
      <4> QED
        BY <3>1, <4>1, Zenon
    <3>3. txAt' \in 0..SendBit'
      BY <1>2, <2>2
    <3>4. Len(frame') <= BitsOfFrame
      BY <2>3 DEF BitsOfFrame
    <3>5. line' = frame'[1]
      BY <2>2, <2>3, Zenon
    <3> QED
      BY <2>5, <3>1, <3>2, <3>3, <3>4, <3>5, Zenon DEF FrameInv
  <2>9. GotInv'
    BY <1>1, <1>3, <1>5, <2>1, <2>3, <2>4, <2>5 DEF GotInv
  <2>10. ReceiverInv'
    BY <1>1, <1>2, <2>1, <2>2, <2>3, <2>5 DEF ReceiverInv, BitsOfFrame
  <2> QED
    BY <1>4, <2>6, <2>7, <2>8, <2>9, <2>10
<1>6. CASE Sending
  <2>1. queue' = Append(queue, Text[written + 1]) /\ UNCHANGED << frame, line, txAt >>
    BY <1>1, <1>6, Numbers, BitTimes DEF WritesByte, Accepted, uart_writeAvailability
  <2>2. Len(queue') = Len(queue) + 1 /\ Len(queue) \in Nat
    BY <1>3, <2>1 DEF ConsoleTypes
  <2>3. Taken' = Taken /\ Sending' /\ Taken \in Int
    BY <1>1, <1>3, <1>6, <2>1, <2>2 DEF Taken, Sending
  <2>4. ConsoleTypes'
    BY <1>1, <1>3, <2>1 DEF ConsoleTypes
  <2>5. QueueInv'
    <3>1. ASSUME NEW i \in 1..Len(queue')
          PROVE  queue'[i] = Text[Taken + i]
      <4>1. CASE i <= Len(queue)
        BY <2>1, <2>2, <4>1, <1>3 DEF QueueInv, ConsoleTypes
      <4>2. CASE i = Len(queue) + 1
        BY <2>1, <4>2, <1>3, <2>2 DEF ConsoleTypes, Taken
      <4> QED
        BY <2>2, <4>1, <4>2
    <3>2. direction' = "print" => Len(queue') <= FifoDepth
      BY <1>1, <2>2, BitTimes DEF WritesByte, uart_writeAvailability
    <3>3. Len(queue') <= written'
      BY <1>1, <1>3, <2>2 DEF QueueInv
    <3> QED
      BY <3>1, <3>2, <3>3, <2>3 DEF QueueInv
  <2>6. FrameInv'
    BY <1>2, <2>1, <2>3, <1>6 DEF FrameInv, Current
  <2>7. GotInv'
    BY <1>1, <2>1, <2>3, <1>6 DEF GotInv
  <2>8. ReceiverInv'
    BY <1>1, <1>2, <2>1, <2>3, <1>6 DEF ReceiverInv, SentFor, ReceivedFor, Sample, Current
  <2> QED
    BY <1>4, <2>4, <2>5, <2>6, <2>7, <2>8
<1> QED
  BY <1>5, <1>6

LEMMA ExitsStep ==
  ASSUME ConsoleInv, Exits
  PROVE  ConsoleInv'
<1> USE DEF ConsoleInv
<1>1. /\ UNCHANGED << direction, written, queue, frame, txAt, line, rx, byte, bit, rxAt, got, errors >>
      /\ exitAt' = ExitDelay /\ direction = "print" /\ written = Len(Text)
  BY DEF Exits, txVars, rxVars
<1>2. SendBit' = SendBit /\ ReceiveBit' = ReceiveBit /\ HalfBit' = HalfBit
  BY <1>1, SameDirection
<1>3. SendBit = 600 /\ ExitDelay = 300000 /\ FifoDepth = 16
  BY <1>1, BitTimes
<1>4. ConsoleTypes'
  BY <1>1, <1>3 DEF ConsoleTypes
<1>5. QueueInv' /\ FrameInv' /\ GotInv' /\ ReceiverInv'
  BY <1>1, <1>2 DEF QueueInv, FrameInv, GotInv, ReceiverInv, Taken, Current, Sending,
    SentFor, ReceivedFor, Sample
<1>6. ExitInv'
  <2>1. ASSUME Sending PROVE Remaining < 300000
    <3>0. Len(queue) \in Nat /\ Len(frame) \in Nat
      BY Numbers
    <3>1. Len(queue) <= FifoDepth
      BY <1>1 DEF QueueInv
    <3>a. Len(frame) <= BitsOfFrame /\ txAt \in 0..SendBit
      BY <2>1 DEF FrameInv
    <3>2. Remaining = (10 * Len(queue) + Len(frame) - 1) * 600 + txAt
      BY <1>3 DEF Remaining, BitsOfFrame
    <3> QED
      BY <1>3, <3>0, <3>1, <3>a, <3>2 DEF BitsOfFrame
  <2>2. Remaining' = Remaining /\ (Sending' <=> Sending)
    <3>1. queue' = queue /\ frame' = frame /\ txAt' = txAt
      BY <1>1
    <3> QED
      BY <3>1, <1>2, Zenon DEF Remaining, Sending
  <2> QED
    BY <1>1, <1>3, <2>1, <2>2 DEF ExitInv
<1> QED
  BY <1>4, <1>5, <1>6

LEMMA StartsStep ==
  ASSUME ConsoleInv, Starts
  PROVE  ConsoleInv'
<1> USE DEF ConsoleInv
<1>1. /\ UNCHANGED << direction, written, queue, frame, txAt, line, byte, bit, got, errors, exitAt >>
      /\ rx = "wait" /\ ~line /\ rx' = "start" /\ rxAt' = HalfBit
  BY DEF Starts, txVars, Falls, FirstWait
<1>2. SendBit' = SendBit /\ ReceiveBit' = ReceiveBit /\ HalfBit' = HalfBit
  BY <1>1, SameDirection DEF ConsoleTypes
<1>3. HalfBit \in 0..ReceiveBit /\ HalfBit \in Int /\ SendBit \in Int /\ ReceiveBit \in Int
  BY BitTimes DEF ConsoleTypes
<1>4. Sending
  BY <1>1 DEF FrameInv
<1>5. Len(frame) # 1
  <2>1. SUFFICES ASSUME Len(frame) = 1 PROVE FALSE
    OBVIOUS
  <2>2. frame[1] = Bits(Current)[10]
    BY <2>1, <1>4 DEF FrameInv, BitsOfFrame
  <2>3. Current \in SUBSET (0..7)
    BY <1>4, TextAssumption, Numbers DEF FrameInv, QueueInv, Current, Taken, ConsoleTypes
  <2> QED
    BY <1>1, <1>4, <2>2, <2>3, BitsOfAByte DEF FrameInv
<1>6. Len(frame) = 10 /\ txAt = SendBit
  BY <1>1, <1>4, <1>5 DEF ReceiverInv, BitsOfFrame
<1>7. ConsoleTypes' /\ QueueInv' /\ FrameInv' /\ Sending'
  BY <1>1, <1>2, <1>3, <1>4 DEF ConsoleTypes, QueueInv, FrameInv, Taken, Current, Sending, Stages
<1>8. GotInv'
  BY <1>1, <1>4, <1>6 DEF GotInv, Sending, Taken
<1>9. ReceiverInv'
  BY <1>1, <1>2, <1>3, <1>6, <1>7 DEF ReceiverInv, SentFor, ReceivedFor, Sample, BitsOfFrame
<1>10. ExitInv'
  BY <1>1, <1>2 DEF ExitInv, Sending, Remaining
<1> QED
  BY <1>7, <1>8, <1>9, <1>10

LEMMA Rest ==
  ASSUME NEW S, NEW s \in Seq(S), s # << >>
  PROVE  /\ Tail(s) \in Seq(S) /\ Len(Tail(s)) = Len(s) - 1 /\ Len(s) \in Nat \ {0}
         /\ \A i \in 1..Len(s) - 1 : Tail(s)[i] = s[i + 1]
         /\ Head(s) = s[1] /\ Head(s) \in S
         /\ Tail(s) = << >> <=> Len(s) = 1
<1>1. /\ Tail(s) \in Seq(S) /\ Len(Tail(s)) = Len(s) - 1 /\ Len(s) \in Nat \ {0}
      /\ \A i \in 1..Len(s) - 1 : Tail(s)[i] = s[i + 1]
      /\ Head(s) = s[1] /\ Head(s) \in S
  OBVIOUS
<1>2. Tail(s) = << >> <=> Len(Tail(s)) = 0
  BY <1>1, EmptySeq, Zenon
<1>3. Len(Tail(s)) = 0 <=> Len(s) = 1
  BY <1>1
<1> QED
  BY <1>1, <1>2, <1>3, Zenon

\* Both clocks run on by what the sender has sent.
LEMMA SameTime ==
  ASSUME NEW S, NEW R, NEW H, NEW l \in Int, NEW k \in Int, NEW tx \in Int, NEW r \in Int, NEW d \in Int,
         Times(S, R, H), (11 - l) * S - tx = H + k * R - r
  PROVE  /\ tx = d => (11 - (l - 1)) * S - S = H + k * R - (r - d)
         /\ (11 - l) * S - (tx - d) = H + k * R - (r - d)
         /\ r = d => (11 - l) * S - (tx - d) = H + (k + 1) * R - R
<1>1. CASE S = 600 /\ R = 625 /\ H = 312
  BY <1>1
<1>2. CASE S = 625 /\ R = 600 /\ H = 300
  BY <1>2
<1> QED
  BY <1>1, <1>2 DEF Times

\* So does what is left to be sent.
LEMMA LessRemains ==
  ASSUME NEW S, NEW R, NEW H, NEW q \in Int, NEW l \in Int, NEW tx \in Int, NEW e \in Int, Times(S, R, H),
         e > (10 * q + l - 1) * S + tx
  PROVE  /\ e - tx > (10 * q + (l - 1) - 1) * S + S
         /\ l = 1 => e - tx > (10 * (q - 1) + 10 - 1) * S + S
<1>1. CASE S = 600
  BY <1>1
<1>2. CASE S = 625
  BY <1>2
<1> QED
  BY <1>1, <1>2 DEF Times

LEMMA UpToTen ==
  ASSUME NEW n \in Nat, n # 0, n <= 10
  PROVE  n \in 1..10
OBVIOUS

(* The bytes the invariant speaks of are bytes.                            *)
LEMMA CurrentByte ==
  ASSUME ConsoleInv, Sending
  PROVE  Current \in SUBSET (0..7) /\ Len(frame) \in 1..10 /\ txAt \in 0..SendBit /\ line = frame[1]
         /\ frame[1] = Bits(Current)[11 - Len(frame)]
<1>1. Len(frame) \in 1..10 /\ txAt \in 0..SendBit /\ line = frame[1]
  <2>1. Len(frame) \in Nat /\ Len(frame) # 0
    BY Numbers DEF ConsoleInv
  <2>2. Len(frame) <= 10 /\ txAt \in 0..SendBit /\ line = frame[1]
    BY Zenon DEF ConsoleInv, FrameInv, BitsOfFrame
  <2>3. Len(frame) \in 1..10
    <3>1. Len(frame) <= 10
      BY <2>2
    <3> QED
      BY <2>1, <3>1, UpToTen, Zenon
  <2> QED
    BY <2>2, <2>3, Zenon
<1>2. Taken \in 1..Len(Text)
  BY Numbers DEF ConsoleInv, ConsoleTypes, FrameInv, Taken
<1>3. Current \in SUBSET (0..7)
  BY <1>2, TextAssumption DEF Current
<1>4. frame[1] = Bits(Current)[(10 - Len(frame)) + 1] /\ (10 - Len(frame)) + 1 = 11 - Len(frame)
  BY <1>1 DEF ConsoleInv, FrameInv, BitsOfFrame
<1> QED
  BY <1>1, <1>3, <1>4, Zenon

LEMMA BothTimes ==
  ASSUME ConsoleTypes
  PROVE  Times(SendBit, ReceiveBit, HalfBit) /\ SendBit \in Nat /\ ReceiveBit \in Nat /\ HalfBit \in Nat
BY BitTimes DEF ConsoleTypes, Times

LEMMA SampleRange ==
  ASSUME ConsoleInv, rx # "wait"
  PROVE  Sample \in 0..9 /\ (rx = "start" => Sample = 0) /\ (rx # "start" => Sample = bit + 1)
         /\ rx \in {"start", "data", "stop"} /\ bit \in 0..8
BY DEF ConsoleInv, ConsoleTypes, ReceiverInv, Sample, Stages

(* The bit on the line when the decoder takes a sample, and that it takes  *)
(* its last sample before the sender is done.                              *)
LEMMA InTheBit ==
  ASSUME ConsoleInv, rx # "wait"
  PROVE  (rxAt <= txAt => Len(frame) = 10 - Sample) /\ (txAt <= rxAt => Len(frame) > 1)
<1> DEFINE S == SendBit  R == ReceiveBit  H == HalfBit  l == Len(frame)
<1>1. Sending /\ rxAt \in 0..R /\ (11 - l) * S - txAt = H + Sample * R - rxAt
  <2>1. Sending /\ rxAt \in 0..R /\ SentFor = ReceivedFor
    BY DEF ConsoleInv, ReceiverInv
  <2> QED
    BY <2>1 DEF SentFor, ReceivedFor
<1>2. l \in 1..10 /\ txAt \in 0..S
  BY <1>1, CurrentByte
<1>3. Sample \in 0..9 /\ Times(S, R, H)
  BY SampleRange, BothTimes DEF ConsoleInv
<1> HIDE DEF S, R, H, l
<1>4. (rxAt <= txAt => l = 10 - Sample) /\ (txAt <= rxAt => l > 1)
  <2> DEFINE k == Sample
  <2>1. k \in 0..9 /\ (11 - l) * S - txAt = H + k * R - rxAt
    BY <1>1, <1>3
  <2> HIDE DEF k
  <2>2. rxAt \in 0..R /\ txAt \in 0..S /\ l \in 1..10 /\ Times(S, R, H)
    BY <1>1, <1>2, <1>3
  <2>3. (rxAt <= txAt => l = 10 - k) /\ (txAt <= rxAt => l > 1)
    BY <2>1, <2>2, RightBit, Zenon
  <2> QED
    BY <2>3 DEF k
<1> QED
  BY <1>4 DEF l

(* The sender's timer has run down.                                        *)
LEMMA SendsStep ==
  ASSUME ConsoleInv, ~Falls, NEW d \in Nat, d = txAt, rxAt = Never \/ d <= rxAt, exitAt = Never \/ d <= exitAt,
         SendsBit, UNCHANGED << direction, written, rx, byte, bit, got, errors >>,
         rxAt' = IF rxAt = Never THEN Never ELSE rxAt - d,
         exitAt' = IF exitAt = Never THEN Never ELSE exitAt - d
  PROVE  ConsoleInv'
<1>0. /\ direction' = direction /\ written' = written /\ rx' = rx /\ byte' = byte /\ bit' = bit
      /\ got' = got /\ errors' = errors
  OBVIOUS
<1>1. Sending
  BY DEF ConsoleInv, FrameInv, Never
<1>2. /\ Len(frame) \in 1..10 /\ Current \in SUBSET (0..7) /\ txAt \in 0..SendBit
      /\ frame \in Seq(BOOLEAN) /\ queue \in Seq(SUBSET (0..7)) /\ Len(queue) \in Nat
  BY <1>1, CurrentByte, Numbers DEF ConsoleInv, ConsoleTypes
<1>3. Times(SendBit, ReceiveBit, HalfBit) /\ SendBit \in Nat /\ ReceiveBit \in Nat /\ HalfBit \in Nat
  BY BothTimes DEF ConsoleInv
<1>4. SendBit' = SendBit /\ ReceiveBit' = ReceiveBit /\ HalfBit' = HalfBit
  BY SameDirection DEF ConsoleInv, ConsoleTypes
<1>5. rx = "wait" => Len(frame) = 1 /\ rxAt = Never
  <2>1. SUFFICES ASSUME rx = "wait", Len(frame) # 1 PROVE FALSE
    BY DEF ConsoleInv, ReceiverInv
  <2>2. Len(frame) = 10
    BY <1>1, <2>1 DEF ConsoleInv, ReceiverInv, BitsOfFrame
  <2>3. line = frame[1] /\ frame[1] = Bits(Current)[11 - 10] /\ 11 - 10 = 1
    BY <1>1, <2>2, CurrentByte
  <2>4. line = FALSE
    BY <1>2, <2>3, BitsOfAByte, Zenon
  <2> QED
    BY <2>1, <2>4 DEF Falls
<1>6. rx # "wait" => Len(frame) > 1 /\ rxAt # Never /\ rxAt \in 0..ReceiveBit /\ SentFor = ReceivedFor
  <2>1. SUFFICES ASSUME rx # "wait"
        PROVE Len(frame) > 1 /\ rxAt # Never /\ rxAt \in 0..ReceiveBit /\ SentFor = ReceivedFor
    OBVIOUS
  <2>2. rxAt \in 0..ReceiveBit /\ SentFor = ReceivedFor
    BY <2>1 DEF ConsoleInv, ReceiverInv
  <2>3. rxAt # Never /\ txAt <= rxAt
    BY <1>3, <2>2 DEF Never
  <2> QED
    BY <2>1, <2>2, <2>3, InTheBit
<1>7. /\ rxAt' \in Int /\ exitAt' \in Int /\ (exitAt # Never <=> exitAt' # Never)
      /\ (exitAt' # Never => exitAt' >= 0 /\ exitAt' = exitAt - txAt)
  BY DEF ConsoleInv, ConsoleTypes, ExitInv, Never
<1>8. /\ Tail(frame) \in Seq(BOOLEAN) /\ Len(Tail(frame)) = Len(frame) - 1
      /\ \A i \in 1..Len(frame) - 1 : Tail(frame)[i] = frame[i + 1]
      /\ Head(Tail(frame)) = Tail(frame)[1] \/ Len(frame) = 1
      /\ Tail(frame) = << >> <=> Len(frame) = 1
  <2>1. frame # << >>
    BY <1>1 DEF Sending
  <2>2. /\ Tail(frame) \in Seq(BOOLEAN) /\ Len(Tail(frame)) = Len(frame) - 1
        /\ \A i \in 1..Len(frame) - 1 : Tail(frame)[i] = frame[i + 1]
        /\ Tail(frame) = << >> <=> Len(frame) = 1
    BY <1>2, <2>1, Rest, Zenon
  <2>3. Len(frame) # 1 => Head(Tail(frame)) = Tail(frame)[1]
    BY <2>2, Rest, Zenon
  <2> QED
    BY <2>2, <2>3, Zenon
<1>9. CASE Len(frame) > 1
  <2> DEFINE l == Len(frame)
  <2>0. l # 1 /\ ~(l <= 1) /\ l \in 2..10 /\ 1 \in 1..l - 1 /\ l - 1 <= 10 /\ l - 1 # 0
    <3>1. l \in 1..10 /\ l > 1
      BY <1>2, <1>9
    <3> HIDE DEF l
    <3> QED
      BY <3>1
  <2>a. rx # "wait" /\ Tail(frame) # << >> /\ FrameNext = Tail(frame)
    BY <1>5, <1>8, <1>9, <2>0, Zenon DEF FrameNext
  <2>1. /\ frame' = Tail(frame) /\ queue' = queue /\ line' = frame'[1] /\ txAt' = SendBit
    BY <1>8, <2>0, <2>a, Zenon DEF SendsBit
  <2>2. frame' \in Seq(BOOLEAN) /\ Len(frame') = l - 1 /\ Sending' /\ line' \in BOOLEAN
    <3>1. frame' \in Seq(BOOLEAN) /\ Len(frame') = l - 1 /\ Sending'
      BY <1>8, <2>1, <2>a, Zenon DEF Sending
    <3>2. 1 \in 1..Len(frame')
      BY <2>0, <3>1, Zenon
    <3> QED
      BY <2>1, <3>1, <3>2
  <2>3. Taken' = Taken /\ Current' = Current /\ written' = written
    BY <2>1 DEF Taken, Current
  <2>4. ConsoleTypes'
    <3>1. txAt' \in Int
      BY <1>3, <2>1
    <3> QED
      BY <1>0, <1>7, <2>1, <2>2, <3>1, Zenon DEF ConsoleInv, ConsoleTypes
  <2>5. QueueInv'
    BY <1>0, <2>1, <2>3, Zenon DEF ConsoleInv, QueueInv
  <2>6. FrameInv'
    <3>1. ASSUME NEW i \in 1..Len(frame')
          PROVE  frame'[i] = Bits(Current)[(BitsOfFrame - Len(frame')) + i]
      <4>1. i + 1 \in 1..l /\ i \in 1..l - 1 /\ (10 - l) + (i + 1) = (10 - (l - 1)) + i
        <5>1. i \in 1..l - 1 /\ l \in 2..10
          BY <2>0, <2>2, Zenon
        <5> HIDE DEF l
        <5> QED
          BY <5>1
      <4>2. frame'[i] = frame[i + 1]
        BY <1>8, <2>1, <4>1
      <4>3. frame[i + 1] = Bits(Current)[(10 - l) + (i + 1)]
        BY <1>1, <4>1 DEF ConsoleInv, FrameInv, BitsOfFrame
      <4> QED
        BY <4>1, <4>2, <4>3, <2>2, Zenon DEF BitsOfFrame
    <3>2. Len(frame') <= BitsOfFrame
      BY <2>0, <2>2, Zenon DEF BitsOfFrame
    <3>3. txAt' \in 0..SendBit' /\ Taken' > 0
      BY <1>1, <1>3, <1>4, <2>1, <2>3 DEF ConsoleInv, FrameInv
    <3> QED
      BY <2>1, <2>2, <2>3, <3>1, <3>2, <3>3, Zenon DEF FrameInv
  <2>7. GotInv'
    BY <1>0, <1>1, <2>a, <2>2, <2>3, Zenon DEF ConsoleInv, GotInv
  <2>8. ReceiverInv'
    <3>1. rxAt' = rxAt - txAt /\ rxAt' \in 0..ReceiveBit'
      <4>1. rxAt \in 0..ReceiveBit /\ rxAt # Never /\ ReceiveBit \in Nat
        BY <1>3, <1>6, <2>a
      <4> QED
        BY <1>4, <4>1
    <3>2. SentFor' = ReceivedFor'
      <4> DEFINE k == Sample
      <4>1. k \in Int /\ Sample' = k
        <5>1. k \in 0..9
          BY <2>a, SampleRange, Zenon
        <5>2. Sample' = k
          BY <1>0, Zenon DEF Sample
        <5> HIDE DEF k
        <5> QED
          BY <5>1, <5>2
      <4>2. (11 - l) * SendBit - txAt = HalfBit + k * ReceiveBit - rxAt
        BY <1>6, <2>a, Zenon DEF SentFor, ReceivedFor
      <4>3. l \in Int /\ txAt \in Int /\ rxAt \in Int
        BY <2>2 DEF ConsoleInv, ConsoleTypes
      <4> HIDE DEF k, l
      <4>4. (11 - (l - 1)) * SendBit - SendBit = HalfBit + k * ReceiveBit - (rxAt - txAt)
        BY <1>3, <4>1, <4>2, <4>3, SameTime
      <4> QED
        BY <1>4, <2>1, <2>2, <3>1, <4>1, <4>4, Zenon DEF SentFor, ReceivedFor
    <3> QED
      BY <1>0, <2>a, <2>2, <2>3, <3>1, <3>2, Zenon DEF ConsoleInv, ReceiverInv
  <2>9. ExitInv'
    <3>1. SUFFICES ASSUME exitAt' # Never PROVE exitAt' > Remaining'
      BY <1>0, <1>7, Zenon DEF ConsoleInv, ExitInv
    <3>2. exitAt > Remaining /\ exitAt' = exitAt - txAt
      BY <1>1, <1>7, <3>1, Zenon DEF ConsoleInv, ExitInv
    <3>3. Remaining' = (10 * Len(queue) + (l - 1) - 1) * SendBit + SendBit
      BY <1>4, <2>1, <2>2, Zenon DEF Remaining, BitsOfFrame
    <3>4. Remaining = (10 * Len(queue) + l - 1) * SendBit + txAt
      BY Zenon DEF Remaining, BitsOfFrame
    <3>5. exitAt \in Int /\ txAt \in Int /\ l \in Int /\ Len(queue) \in Int
      BY <1>2, <2>0 DEF ConsoleInv, ConsoleTypes
    <3> QED
      BY <1>3, <3>2, <3>3, <3>4, <3>5, LessRemains
  <2> QED
    BY <2>4, <2>5, <2>6, <2>7, <2>8, <2>9, Zenon DEF ConsoleInv
<1>11. ASSUME Len(frame) = 1
       PROVE  /\ rx = "wait" /\ rxAt' = Never /\ Len(got) = Taken
              /\ FrameNext = IF queue # << >> THEN Bits(Head(queue)) ELSE << >>
              /\ Taken \in Nat /\ Taken > 0 /\ written \in Nat
  <2>1. ~(1 > 1)
    OBVIOUS
  <2>2. rx = "wait" /\ rxAt' = Never
    BY <1>5, <1>6, <1>11, <2>1, Zenon
  <2>3. Len(got) = Taken /\ FrameNext = IF queue # << >> THEN Bits(Head(queue)) ELSE << >>
    BY <1>11, <2>1, <2>2, Zenon DEF ConsoleInv, GotInv, FrameNext
  <2>4. Taken \in Nat /\ Taken > 0 /\ written \in Nat
    BY <1>1, Numbers DEF ConsoleInv, FrameInv
  <2> QED
    BY <2>2, <2>3, <2>4, Zenon
<1>12. CASE Len(frame) = 1 /\ queue # << >>
  <2> DEFINE b == Head(queue)
  <2>1. /\ Tail(queue) \in Seq(SUBSET (0..7)) /\ Len(Tail(queue)) = Len(queue) - 1
        /\ \A i \in 1..Len(queue) - 1 : Tail(queue)[i] = queue[i + 1]
        /\ b = queue[1] /\ b \in SUBSET (0..7) /\ Len(queue) \in Nat \ {0}
    BY <1>2, <1>12, Rest, Zenon
  <2>2. Bits(b) \in Seq(BOOLEAN) /\ Len(Bits(b)) = 10 /\ Bits(b)[1] = FALSE /\ Bits(b) # << >>
    <3>1. Bits(b) \in Seq(BOOLEAN) /\ Len(Bits(b)) = 10 /\ Bits(b)[1] = FALSE
      BY <2>1, BitsOfAByte, Zenon
    <3>2. Len(<< >>) # 10
      OBVIOUS
    <3> QED
      BY <3>1, <3>2, Zenon
  <2>3. frame' = Bits(b) /\ queue' = Tail(queue) /\ line' = FALSE /\ txAt' = SendBit
    <3>1. FrameNext = Bits(b) /\ 1 <= 1
      BY <1>11, <1>12
    <3>2. Head(Bits(b)) = Bits(b)[1]
      BY <2>2, Rest, Zenon
    <3> QED
      BY <1>12, <2>2, <3>1, <3>2, Zenon DEF SendsBit
  <2>4. Sending' /\ Len(frame') = 10 /\ Len(queue') = Len(queue) - 1
    BY <2>1, <2>2, <2>3, Zenon DEF Sending
  <2>5. Taken' = Taken + 1
    BY <1>0, <1>11, <1>12, <2>1, <2>4 DEF Taken
  <2>6. Current' = b
    <3>1. b = Text[Taken + 1]
      BY <2>1 DEF ConsoleInv, QueueInv
    <3>2. Text' = Text
      OBVIOUS
    <3> QED
      BY <2>5, <3>1, <3>2, Zenon DEF Current
  <2>7. ConsoleTypes'
    <3>1. txAt' \in Int /\ FALSE \in BOOLEAN
      BY <1>3, <2>3
    <3> QED
      BY <1>0, <1>7, <2>1, <2>2, <2>3, <3>1, Zenon DEF ConsoleInv, ConsoleTypes
  <2>8. QueueInv'
    <3>1. ASSUME NEW i \in 1..Len(queue')
          PROVE  queue'[i] = Text[Taken' + i]
      <4>1. i \in 1..Len(queue) - 1 /\ i + 1 \in 1..Len(queue) /\ Taken + (i + 1) = (Taken + 1) + i
        BY <1>11, <1>12, <2>1, <2>4
      <4>2. queue'[i] = queue[i + 1]
        BY <2>1, <2>3, <4>1, Zenon
      <4>3. queue[i + 1] = Text[Taken + (i + 1)]
        BY <4>1, Zenon DEF ConsoleInv, QueueInv
      <4> QED
        BY <2>5, <4>1, <4>2, <4>3, Zenon
    <3>2. /\ Len(queue) <= written /\ (direction = "print" => Len(queue) <= FifoDepth)
      BY DEF ConsoleInv, QueueInv
    <3>3. Len(queue') <= written' /\ (direction' = "print" => Len(queue') <= FifoDepth)
      BY <1>0, <1>11, <1>12, <2>1, <2>4, <3>2 DEF FifoDepth
    <3> QED
      BY <3>1, <3>3, Zenon DEF QueueInv
  <2>9. FrameInv'
    <3>1. ASSUME NEW i \in 1..Len(frame')
          PROVE  frame'[i] = Bits(Current')[(BitsOfFrame - Len(frame')) + i]
      <4>1. (10 - 10) + i = i
        BY <2>4
      <4> QED
        BY <2>3, <2>4, <2>6, <4>1, Zenon DEF BitsOfFrame
    <3>2. 10 <= 10 /\ Taken' > 0 /\ txAt' \in 0..SendBit'
      BY <1>3, <1>4, <1>11, <1>12, <2>3, <2>5
    <3> QED
      BY <2>2, <2>3, <2>4, <3>1, <3>2, Zenon DEF FrameInv, BitsOfFrame
  <2>10. GotInv'
    <3>1. 10 > 1 /\ Taken' - 1 = Taken
      BY <1>11, <1>12, <2>5
    <3> QED
      BY <1>0, <1>11, <1>12, <2>4, <3>1, Zenon DEF ConsoleInv, GotInv
  <2>11. ReceiverInv'
    BY <1>0, <1>4, <1>11, <1>12, <2>3, <2>4, Zenon DEF ReceiverInv, BitsOfFrame
  <2>12. ExitInv'
    <3>1. SUFFICES ASSUME exitAt' # Never PROVE exitAt' > Remaining'
      BY <1>0, <1>7, Zenon DEF ConsoleInv, ExitInv
    <3>2. exitAt > Remaining /\ exitAt' = exitAt - txAt
      BY <1>1, <1>7, <3>1, Zenon DEF ConsoleInv, ExitInv
    <3>3. Remaining' = (10 * (Len(queue) - 1) + 10 - 1) * SendBit + SendBit
      BY <1>4, <2>3, <2>4, Zenon DEF Remaining, BitsOfFrame
    <3>4. Remaining = (10 * Len(queue) + 1 - 1) * SendBit + txAt
      BY <1>12, Zenon DEF Remaining, BitsOfFrame
    <3>5. exitAt \in Int /\ txAt \in Int /\ Len(queue) \in Int
      BY <1>2 DEF ConsoleInv, ConsoleTypes
    <3> QED
      BY <1>3, <3>2, <3>3, <3>4, <3>5, LessRemains
  <2> QED
    BY <2>7, <2>8, <2>9, <2>10, <2>11, <2>12, Zenon DEF ConsoleInv
<1>13. CASE Len(frame) = 1 /\ queue = << >>
  <2>1. frame' = << >> /\ queue' = << >> /\ line' = TRUE /\ txAt' = Never
    BY <1>11, <1>13, Zenon DEF SendsBit
  <2>2. ~Sending' /\ Taken' = Taken
    BY <1>0, <1>13, <2>1, Zenon DEF Sending, Taken
  <2>3. ConsoleTypes'
    <3>1. txAt' \in Int /\ TRUE \in BOOLEAN /\ frame' \in Seq(BOOLEAN) /\ queue' \in Seq(SUBSET (0..7))
      BY <2>1 DEF Never
    <3> QED
      BY <1>0, <1>7, <2>1, <3>1, Zenon DEF ConsoleInv, ConsoleTypes
  <2>4. QueueInv'
    BY <1>0, <1>13, <2>1, <2>2, Zenon DEF ConsoleInv, QueueInv
  <2>5. FrameInv' /\ GotInv' /\ ReceiverInv' /\ ExitInv'
    BY <1>0, <1>7, <1>11, <1>13, <2>1, <2>2, Zenon DEF ConsoleInv, FrameInv, GotInv, ReceiverInv, ExitInv
  <2> QED
    BY <2>3, <2>4, <2>5, Zenon DEF ConsoleInv
<1> QED
  <2>1. \A n \in 1..10 : n = 1 \/ n > 1
    OBVIOUS
  <2>2. Len(frame) = 1 \/ Len(frame) > 1
    BY <1>2, <2>1, Zenon
  <2> QED
    BY <2>2, <1>9, <1>12, <1>13, Zenon

(* The receiver's timer has run down: it looks at the bit it waits for.    *)
LEMMA ReceivesStep ==
  ASSUME ConsoleInv, NEW d \in Nat, d = rxAt, txAt = Never \/ d <= txAt, exitAt = Never \/ d <= exitAt,
         Receives, UNCHANGED << direction, written, queue, frame, line >>,
         txAt' = IF txAt = Never THEN Never ELSE txAt - d,
         exitAt' = IF exitAt = Never THEN Never ELSE exitAt - d
  PROVE  ConsoleInv'
<1>0. /\ direction' = direction /\ written' = written /\ queue' = queue /\ frame' = frame /\ line' = line
      /\ Taken' = Taken /\ Current' = Current /\ (Sending' <=> Sending)
  BY DEF Taken, Current, Sending
<1>1. /\ rx # "wait" /\ Sending /\ rxAt \in 0..ReceiveBit /\ SentFor = ReceivedFor
      /\ (rx # "start" => \A n \in 0..7 : n \in byte <=> n < bit /\ n \in Current)
      /\ (rx = "data" => bit \in 0..7) /\ (rx = "stop" => bit = 8)
  BY DEF ConsoleInv, ReceiverInv, Never
<1>2. /\ Len(frame) \in 1..10 /\ Current \in SUBSET (0..7) /\ txAt \in 0..SendBit
      /\ line = frame[1] /\ frame[1] = Bits(Current)[11 - Len(frame)]
  BY <1>1, CurrentByte, Zenon
<1>3. Times(SendBit, ReceiveBit, HalfBit) /\ SendBit \in Nat /\ ReceiveBit \in Nat /\ HalfBit \in Nat
  BY BothTimes DEF ConsoleInv
<1>4. SendBit' = SendBit /\ ReceiveBit' = ReceiveBit /\ HalfBit' = HalfBit
  BY SameDirection DEF ConsoleInv, ConsoleTypes
<1>5. /\ txAt' = txAt - d /\ txAt' \in 0..SendBit' /\ d <= txAt
  <2>1. txAt # Never
    BY <1>2, <1>3 DEF Never
  <2> QED
    BY <1>2, <1>3, <1>4, <2>1
<1>6. /\ exitAt' \in Int /\ (exitAt # Never <=> exitAt' # Never)
      /\ (exitAt' # Never => exitAt' >= 0 /\ exitAt' = exitAt - d)
  BY DEF ConsoleInv, ConsoleTypes, ExitInv, Never
<1>7. /\ Sample \in 0..9 /\ Len(frame) = 10 - Sample /\ 11 - Len(frame) = Sample + 1
      /\ (rx = "start" => Sample = 0) /\ (rx # "start" => Sample = bit + 1)
      /\ rx \in {"start", "data", "stop"} /\ bit \in 0..8
  <2> DEFINE k == Sample
  <2>1. /\ k \in 0..9 /\ (rx = "start" => k = 0) /\ (rx # "start" => k = bit + 1)
        /\ rx \in {"start", "data", "stop"} /\ bit \in 0..8
    BY <1>1, SampleRange, Zenon
  <2>2. Len(frame) = 10 - k
    BY <1>1, <1>5, InTheBit
  <2> HIDE DEF k
  <2>3. 11 - (10 - k) = k + 1
    BY <2>1
  <2>4. 11 - Len(frame) = k + 1
    BY <2>2, <2>3, Zenon
  <2> QED
    BY <2>1, <2>2, <2>4, Zenon DEF k
<1>8. line = Bits(Current)[Sample + 1]
  BY <1>2, <1>7, Zenon
<1>9. QueueInv'
  BY <1>0, Zenon DEF ConsoleInv, QueueInv
<1>10. FrameInv'
  <2>1. /\ Taken > 0 /\ Len(frame) <= BitsOfFrame
        /\ \A i \in 1..Len(frame) : frame[i] = Bits(Current)[(BitsOfFrame - Len(frame)) + i]
    BY <1>1, Zenon DEF ConsoleInv, FrameInv
  <2> QED
    BY <1>0, <1>1, <1>2, <1>5, <2>1, Zenon DEF FrameInv
<1>11. ExitInv'
  <2>1. SUFFICES ASSUME exitAt' # Never PROVE exitAt' > Remaining'
    BY <1>0, <1>6, Zenon DEF ConsoleInv, ExitInv
  <2>2. exitAt > Remaining /\ exitAt' = exitAt - d
    BY <1>1, <1>6, <2>1, Zenon DEF ConsoleInv, ExitInv
  <2> DEFINE z == (BitsOfFrame * Len(queue) + Len(frame) - 1) * SendBit
  <2>3. Remaining = z + txAt /\ Remaining' = z + (txAt - d)
    BY <1>0, <1>4, <1>5, Zenon DEF Remaining
  <2>4. z \in Int /\ exitAt \in Int /\ txAt \in Int
    BY <1>2, <1>3, Numbers DEF ConsoleInv, ConsoleTypes, BitsOfFrame
  <2> HIDE DEF z
  <2> QED
    BY <2>2, <2>3, <2>4
<1>12. ASSUME NEW k \in Int, k = Sample, Sample' = k + 1, rxAt' = ReceiveBit
       PROVE  SentFor' = ReceivedFor' /\ rxAt' \in 0..ReceiveBit'
  <2> DEFINE l == Len(frame)
  <2>1. (11 - l) * SendBit - txAt = HalfBit + k * ReceiveBit - rxAt
    BY <1>1, <1>12, Zenon DEF SentFor, ReceivedFor
  <2>2. l \in Int /\ txAt \in Int /\ rxAt \in Int
    BY <1>2 DEF ConsoleInv, ConsoleTypes
  <2> HIDE DEF l
  <2>3. (11 - l) * SendBit - (txAt - d) = HalfBit + (k + 1) * ReceiveBit - ReceiveBit
    BY <1>3, <2>1, <2>2, SameTime
  <2>4. SentFor' = ReceivedFor'
    BY <1>0, <1>4, <1>5, <1>12, <2>3, Zenon DEF SentFor, ReceivedFor, l
  <2>5. rxAt' \in 0..ReceiveBit'
    BY <1>3, <1>4, <1>12
  <2> QED
    BY <2>4, <2>5
<1>13. CASE rx = "start"
  <2>1. line = FALSE
    <3>1. 0 + 1 = 1
      OBVIOUS
    <3> QED
      BY <1>2, <1>7, <1>8, <1>13, <3>1, BitsOfAByte, Zenon
  <2>2. rx' = "data" /\ rxAt' = ReceiveBit /\ byte' = {} /\ bit' = 0 /\ got' = got /\ errors' = errors
    BY <1>13, <2>1 DEF Receives
  <2>3. ConsoleTypes'
    BY <1>0, <1>3, <1>5, <1>6, <2>2 DEF ConsoleInv, ConsoleTypes, Stages
  <2>4. GotInv'
    BY <1>0, <1>1, <2>2 DEF ConsoleInv, GotInv
  <2>5. ReceiverInv'
    <3>1. Sample' = 0 + 1 /\ Sample = 0 /\ 0 \in Int /\ 0 \in 0..7
      BY <1>7, <1>13, <2>2 DEF Sample
    <3>2. SentFor' = ReceivedFor' /\ rxAt' \in 0..ReceiveBit'
      BY <1>12, <2>2, <3>1
    <3>3. \A n \in 0..7 : ~(n < 0)
      OBVIOUS
    <3> QED
      BY <1>0, <1>1, <2>2, <3>1, <3>2, <3>3 DEF ReceiverInv
  <2> QED
    BY <1>9, <1>10, <1>11, <2>3, <2>4, <2>5, Zenon DEF ConsoleInv
<1>14. CASE rx = "data"
  <2>1. line = (bit \in Current) /\ bit \in 0..7
    <3>1. bit \in 0..7 /\ (bit + 1) + 1 = bit + 2 /\ Sample = bit + 1
      BY <1>1, <1>7, <1>14
    <3>2. Bits(Current)[bit + 2] = (bit \in Current)
      BY <1>2, <3>1, BitsOfAByte
    <3> QED
      BY <1>8, <3>1, <3>2, Zenon
  <2>2. /\ byte' = (IF line THEN byte \cup {bit} ELSE byte) /\ bit' = bit + 1 /\ rxAt' = ReceiveBit
        /\ rx' = (IF bit = 7 THEN "stop" ELSE "data") /\ got' = got /\ errors' = errors
    BY <1>14 DEF Receives
  <2>3. bit' \in 0..8 /\ byte' \in SUBSET (0..7) /\ rx' \in {"data", "stop"} /\ rxAt' \in Int
    BY <1>3, <2>1, <2>2 DEF ConsoleInv, ConsoleTypes
  <2>4. ConsoleTypes'
    <3>1. rx' \in Stages /\ txAt' \in Int
      BY <1>2, <1>5, <2>3 DEF Stages
    <3> QED
      BY <1>0, <1>6, <2>2, <2>3, <3>1, Zenon DEF ConsoleInv, ConsoleTypes
  <2>5. GotInv'
    <3>1. rx' # "wait"
      BY <2>3
    <3> QED
      BY <1>0, <1>1, <2>2, <3>1, Zenon DEF ConsoleInv, GotInv
  <2>6. ReceiverInv'
    <3>1. Sample' = (bit + 1) + 1 /\ Sample = bit + 1 /\ bit + 1 \in Int
      BY <1>7, <1>14, <2>1, <2>2, <2>3 DEF Sample
    <3>2. SentFor' = ReceivedFor' /\ rxAt' \in 0..ReceiveBit'
      BY <1>12, <2>2, <3>1
    <3>3. ASSUME NEW n \in 0..7
          PROVE  n \in byte' <=> n < bit' /\ n \in Current'
      <4>1. n \in byte <=> n < bit /\ n \in Current
        BY <1>1, <1>14
      <4>2. n < bit + 1 <=> n < bit \/ n = bit
        BY <2>1
      <4>3. n \in byte' <=> n \in byte \/ (n = bit /\ bit \in Current)
        BY <2>1, <2>2
      <4> QED
        BY <1>0, <2>2, <4>1, <4>2, <4>3, Zenon
    <3>4. (rx' = "data" => bit' \in 0..7) /\ (rx' = "stop" => bit' = 8) /\ rx' # "wait"
      BY <2>1, <2>2
    <3> QED
      BY <1>0, <1>1, <3>2, <3>3, <3>4, Zenon DEF ReceiverInv
  <2> QED
    BY <1>9, <1>10, <1>11, <2>4, <2>5, <2>6, Zenon DEF ConsoleInv
<1>15. CASE rx = "stop"
  <2>1. bit = 8 /\ Sample = 9 /\ Len(frame) = 1 /\ 9 + 1 = 10
    BY <1>1, <1>7, <1>15
  <2>2. line = TRUE
    BY <1>2, <1>8, <2>1, BitsOfAByte, Zenon
  <2>3. /\ got' = Append(got, byte) /\ errors' = errors
        /\ rx' = "wait" /\ rxAt' = Never /\ byte' = byte /\ bit' = bit
    BY <1>15, <2>2 DEF Receives
  <2>4. byte = Current
    <3>1. ASSUME NEW n \in 0..7
          PROVE  n \in byte <=> n \in Current
      <4>1. n < 8
        OBVIOUS
      <4> QED
        BY <1>1, <1>15, <2>1, <4>1
    <3>2. byte \in SUBSET (0..7)
      BY DEF ConsoleInv, ConsoleTypes
    <3> QED
      BY <1>2, <3>1, <3>2
  <2>5. ConsoleTypes'
    <3>1. rx' \in Stages /\ txAt' \in Int /\ rxAt' \in Int /\ got' \in Seq(SUBSET (0..7))
      BY <1>2, <1>5, <2>3 DEF Stages, Never, ConsoleInv, ConsoleTypes
    <3> QED
      BY <1>0, <1>6, <2>3, <3>1, Zenon DEF ConsoleInv, ConsoleTypes
  <2>6. GotInv'
    <3>1. Len(got) = Taken - 1 /\ errors = 0 /\ \A i \in 1..Len(got) : got[i] = Text[i]
      BY <1>1, Zenon DEF ConsoleInv, GotInv
    <3>2. got \in Seq(SUBSET (0..7)) /\ Len(got) \in Nat /\ Taken \in Int
      BY Numbers DEF ConsoleInv, ConsoleTypes
    <3>3. Len(got') = Taken
      BY <2>3, <3>1, <3>2
    <3>4. ASSUME NEW i \in 1..Len(got')
          PROVE  got'[i] = Text[i]
      <4>1. CASE i = Taken
        BY <2>3, <2>4, <3>1, <3>2, <4>1 DEF Current
      <4>2. CASE i # Taken
        BY <2>3, <3>1, <3>2, <3>3, <4>2
      <4> QED
        BY <4>1, <4>2
    <3>5. ~(1 > 1)
      OBVIOUS
    <3> QED
      BY <1>0, <2>1, <2>3, <3>1, <3>3, <3>4, <3>5, Zenon DEF GotInv
  <2>7. ReceiverInv'
    BY <1>0, <2>1, <2>3, Zenon DEF ReceiverInv
  <2> QED
    BY <1>9, <1>10, <1>11, <2>5, <2>6, <2>7, Zenon DEF ConsoleInv
<1> QED
  BY <1>7, <1>13, <1>14, <1>15

LEMMA StillToSend ==
  ASSUME ConsoleInv, Sending
  PROVE  txAt <= Remaining /\ txAt \in Nat /\ Remaining \in Int
<1>1. Len(frame) \in 1..10 /\ txAt \in 0..SendBit /\ SendBit \in {600, 625} /\ Len(queue) \in Nat
  BY CurrentByte, Numbers, BitTimes DEF ConsoleInv, ConsoleTypes
<1> DEFINE l == Len(frame)  q == Len(queue)  s == SendBit
<1>2. l \in 1..10 /\ txAt \in Nat /\ s \in {600, 625} /\ q \in Nat
  BY <1>1
<1>3. Remaining = (10 * q + l - 1) * s + txAt
  BY Zenon DEF Remaining, BitsOfFrame
<1> HIDE DEF l, q, s
<1>4. 10 * q + l - 1 \in Nat
  BY <1>2
<1>5. (10 * q + l - 1) * s \in Nat
  BY <1>2, <1>4
<1> QED
  BY <1>2, <1>3, <1>5

(* The end of the simulation: by then nothing is being sent.               *)
LEMMA EndStep ==
  ASSUME ConsoleInv, exitAt # Never, txAt = Never \/ exitAt <= txAt, rxAt = Never \/ exitAt <= rxAt,
         UNCHANGED << direction, written, queue, frame, line, rx, byte, bit, got, errors >>,
         txAt' = IF txAt = Never THEN Never ELSE txAt - exitAt,
         rxAt' = IF rxAt = Never THEN Never ELSE rxAt - exitAt,
         exitAt' = 0
  PROVE  ConsoleInv'
<1>0. /\ direction' = direction /\ written' = written /\ queue' = queue /\ frame' = frame /\ line' = line
      /\ rx' = rx /\ byte' = byte /\ bit' = bit /\ got' = got /\ errors' = errors
      /\ Taken' = Taken /\ (Sending' <=> Sending)
  BY DEF Taken, Sending
<1>1. ~Sending
  <2>1. SUFFICES ASSUME Sending PROVE FALSE
    OBVIOUS
  <2>2. exitAt > Remaining /\ exitAt \in Int
    BY <2>1, Zenon DEF ConsoleInv, ConsoleTypes, ExitInv
  <2>3. txAt <= Remaining /\ txAt \in Nat /\ Remaining \in Int
    BY <2>1, StillToSend
  <2>4. exitAt <= txAt
    BY <2>3 DEF Never
  <2> QED
    BY <2>2, <2>3, <2>4
<1>2. txAt = Never /\ rx = "wait" /\ rxAt = Never
  BY <1>1, Zenon DEF ConsoleInv, FrameInv, ReceiverInv
<1>3. txAt' = Never /\ rxAt' = Never
  BY <1>2
<1>4. ConsoleTypes'
  BY <1>0, <1>2, <1>3 DEF ConsoleInv, ConsoleTypes
<1>5. QueueInv' /\ FrameInv' /\ GotInv' /\ ReceiverInv'
  BY <1>0, <1>1, <1>2, <1>3, Zenon DEF ConsoleInv, QueueInv, FrameInv, GotInv, ReceiverInv
<1>6. ExitInv'
  <2>1. 0 >= 0
    OBVIOUS
  <2> QED
    BY <1>0, <1>1, <2>1, Zenon DEF ConsoleInv, ExitInv
<1> QED
  BY <1>4, <1>5, <1>6, Zenon DEF ConsoleInv

LEMMA ElapsesStep ==
  ASSUME ConsoleInv, Elapses
  PROVE  ConsoleInv'
<1>1. txAt \in Int /\ rxAt \in Int /\ exitAt \in Int
  BY DEF ConsoleInv, ConsoleTypes
<1>2. /\ txAt # Never => txAt >= 0
      /\ rxAt # Never => rxAt >= 0
      /\ exitAt # Never => exitAt >= 0
  <2>1. txAt # Never => txAt >= 0
    <3>1. Sending => txAt \in 0..SendBit
      BY CurrentByte
    <3> QED
      BY <3>1, BothTimes DEF ConsoleInv, FrameInv
  <2>2. rxAt # Never => rxAt >= 0
    BY BothTimes DEF ConsoleInv, ReceiverInv
  <2> QED
    BY <2>1, <2>2 DEF ConsoleInv, ExitInv
<1>3. /\ Soonest \in Nat
      /\ txAt = Never \/ Soonest <= txAt
      /\ rxAt = Never \/ Soonest <= rxAt
      /\ exitAt = Never \/ Soonest <= exitAt
  BY <1>1, <1>2, SoonestOfThree DEF Elapses, Timers
<1>4. Soonest # Never
  BY <1>3 DEF Never
<1>5. /\ direction' = direction /\ written' = written /\ ~Falls
      /\ exitAt' = IF exitAt = Never THEN Never ELSE exitAt - Soonest
  BY Zenon DEF Elapses, After
<1>6. CASE txAt = Soonest /\ SendsBit /\ rxAt' = After(rxAt) /\ UNCHANGED << rx, byte, bit, got, errors >>
  BY <1>3, <1>5, <1>6, SendsStep DEF After
<1>7. CASE rxAt = Soonest /\ Receives /\ txAt' = After(txAt) /\ UNCHANGED << queue, frame, line >>
  BY <1>3, <1>5, <1>7, ReceivesStep DEF After
<1>8. CASE /\ exitAt = Soonest /\ txAt' = After(txAt) /\ rxAt' = After(rxAt)
           /\ UNCHANGED << queue, frame, line, rx, byte, bit, got, errors >>
  <2>1. exitAt # Never /\ exitAt' = 0
    BY <1>1, <1>4, <1>5, <1>8
  <2> QED
    BY <1>3, <1>5, <1>8, <2>1, EndStep DEF After
<1> QED
  BY <1>6, <1>7, <1>8, Zenon DEF Elapses

\* The invariant holds throughout.
LEMMA AlwaysConsoleInv == ConsoleSpec => []ConsoleInv
<1>1. ConsoleInit => ConsoleInv
  BY InitialConsole
<1>2. ConsoleInv /\ [ConsoleNext]_consoleVars => ConsoleInv'
  <2> SUFFICES ASSUME ConsoleInv, [ConsoleNext]_consoleVars PROVE ConsoleInv'
    OBVIOUS
  <2>1. CASE WritesByte
    BY <2>1, WritesByteStep
  <2>2. CASE Exits
    BY <2>2, ExitsStep
  <2>3. CASE Starts
    BY <2>3, StartsStep
  <2>4. CASE Elapses
    BY <2>4, ElapsesStep
  <2>5. CASE UNCHANGED consoleVars
    <3>1. /\ direction' = direction /\ written' = written /\ queue' = queue /\ frame' = frame
          /\ txAt' = txAt /\ line' = line /\ rx' = rx /\ byte' = byte /\ bit' = bit /\ rxAt' = rxAt
          /\ got' = got /\ errors' = errors /\ exitAt' = exitAt
      BY <2>5 DEF consoleVars, txVars, rxVars
    <3> QED
      BY <3>1 DEF ConsoleInv, ConsoleTypes, QueueInv, FrameInv, GotInv, ReceiverInv, ExitInv,
        Taken, Current, Sending, SentFor, ReceivedFor, Sample, Remaining, SendBit, ReceiveBit, HalfBit
  <2> QED
    BY <2>1, <2>2, <2>3, <2>4, <2>5, Zenon DEF ConsoleNext
<1> QED
  BY <1>1, <1>2, PTL DEF ConsoleSpec

\* Whatever the firmware prints, or the terminal sends, arrives, byte for byte and
\* without a frame error, although the two sides disagree about the length of a bit;
\* and when the simulation ends, all of it has arrived.
THEOREM ConsoleAlwaysExact == ConsoleSpec => []ConsoleExact
<1>1. ConsoleInv => ConsoleExact
  <2> SUFFICES ASSUME ConsoleInv PROVE ConsoleExact
    OBVIOUS
  <2>1. /\ got \in Seq(SUBSET (0..7)) /\ Len(got) \in Nat /\ Len(queue) \in Nat /\ Taken \in Int
        /\ written \in Nat /\ written <= Len(Text) /\ Text \in Seq(SUBSET (0..7)) /\ Len(Text) \in Nat
    BY Numbers, TextAssumption DEF ConsoleInv, ConsoleTypes
  <2>2. errors = 0 /\ \A i \in 1..Len(got) : got[i] = Text[i]
    BY DEF ConsoleInv, GotInv
  <2>3. Len(got) <= Len(Text)
    BY <2>1 DEF ConsoleInv, GotInv, Taken
  <2>4. IsPrefix(got, Text)
    BY <2>1, <2>2, <2>3 DEF IsPrefix
  <2>5. ASSUME Ended PROVE got = Text
    <3>1. exitAt = 0 /\ exitAt # Never /\ written = Len(Text)
      BY <2>5 DEF Ended, Never, ConsoleInv, ExitInv
    <3>2. ~Sending
      BY <3>1, StillToSend DEF ConsoleInv, ExitInv
    <3>3. queue = << >> /\ Len(got) = Taken
      BY <3>2, Zenon DEF ConsoleInv, FrameInv, GotInv
    <3>4. Len(got) = Len(Text)
      BY <2>1, <3>1, <3>3 DEF Taken
    <3> QED
      BY <2>1, <2>2, <3>4
  <2> QED
    BY <2>2, <2>4, <2>5 DEF ConsoleExact
<1> QED
  BY <1>1, AlwaysConsoleInv, PTL
=============================================================================
