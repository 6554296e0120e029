------------------------------ MODULE TisProofs ------------------------------
(***************************************************************************)
(* Proofs about Tis.  Type correctness holds for every choice of the       *)
(* constants; the framing of the SPI byte stream and the staging of the    *)
(* reply bytes hold whenever no command is oversized, because TIS_init on  *)
(* that path resets the parser in the middle of the host's transaction.    *)
(*                                                                         *)
(* The second part is about commands and responses: what the firmware      *)
(* executes is what the host submitted, and what the host reads is the     *)
(* answer to it.  It holds for a host that writes commandReady before      *)
(* each command, for every length, every number of commands, retries and   *)
(* polls and every interleaving of the handler with main.  Any set of      *)
(* commands may be oversized; once one was refused the parser may be out   *)
(* of step with the host, and what remains is that nothing more is         *)
(* executed.                                                               *)
(***************************************************************************)
EXTENDS MCTis, SequenceTheorems, TLAPS

LEMMA PieceLenType ==
  ASSUME NEW total \in Nat, NEW o \in Nat, o < total
  PROVE  PieceLen(total, o) \in 1..64
BY SizeAssumption DEF PieceLen

LEMMA WriteType ==
  ASSUME NEW r \in Known, NEW n \in 1..64, NEW f \in [1..n -> ByteValue]
  PROVE  Write(r, f) \in Txns
<1>1. f \in Seq(ByteValue) /\ Len(f) = n
  OBVIOUS
<1> QED
  BY <1>1 DEF Write, Txns

LEMMA ReadType ==
  ASSUME NEW r \in Known, NEW n \in 1..64
  PROVE  Read(r, n) \in Txns
<1>1. [i \in 1..n |-> Zero] \in Seq(ByteValue) /\ Len([i \in 1..n |-> Zero]) = n
  BY DEF Zero, ByteValue
<1> QED
  BY <1>1 DEF Read, Txns

(* Every transaction the host makes is one: 1 to 64 payload bytes.         *)
LEMMA TxnOfType ==
  ASSUME NEW ph \in Phases \ {"probe", "off"}, NEW j \in Nat, NEW o \in Nat,
         ph = "load" => o < CmdLen,
         ph = "fetch" => o < RspLen
  PROVE  TxnOf(ph, j, o) \in Txns
<1> DEFINE Status(bits) == [i \in 1..StsWrite |-> IF i = 1 THEN bits ELSE Zero]
<1>1. ASSUME NEW bits \in ByteValue PROVE StatusWrite(bits) \in Txns
  <2>1. Status(bits) \in [1..StsWrite -> ByteValue] /\ StsWrite \in 1..64
    BY HostAssumption DEF Zero, ByteValue
  <2> QED
    BY <2>1, WriteType DEF StatusWrite, Known
<1>2. CASE ph = "ready"
  BY <1>1, <1>2 DEF TxnOf, READY, ByteValue
<1>3. CASE ph \in {"check", "poll"}
  <2>1. "STS" \in Known /\ StsRead \in 1..64
    BY HostAssumption DEF Known
  <2>2. Read("STS", StsRead) \in Txns
    BY <2>1, ReadType
  <2> QED
    BY <1>3, <2>2 DEF TxnOf
<1>4. CASE ph = "load"
  <2>1. PieceLen(CmdLen, o) \in 1..64
    BY <1>4, PieceLenType, SizeAssumption
  <2>2. [i \in 1..PieceLen(CmdLen, o) |-> CmdByte(j, o + i - 1)]
          \in [1..PieceLen(CmdLen, o) -> ByteValue]
    BY <2>1 DEF CmdByte, Stride, ByteValue
  <2> QED
    BY <1>4, <2>1, <2>2, WriteType DEF TxnOf, Known
<1>5. CASE ph \in {"go", "again"}
  BY <1>1, <1>5 DEF TxnOf, GO, ByteValue
<1>6. CASE ph = "fetch"
  <2>1. PieceLen(RspLen, o) \in 1..64
    BY <1>6, PieceLenType, SizeAssumption
  <2> QED
    BY <1>6, <2>1, ReadType DEF TxnOf, Known
<1> QED
  BY <1>2, <1>3, <1>4, <1>5, <1>6 DEF Phases

-----------------------------------------------------------------------------
(* Bytes and addresses.                                                    *)
LEMMA ZeroType == Zero \in ByteValue
BY DEF Zero, ByteValue

LEMMA AddressByteType ==
  ASSUME NEW r, NEW n
  PROVE  AddressByte(r, n) \in ByteValue
BY DEF AddressByte, Zero, ByteValue

LEMMA ShiftedType ==
  ASSUME NEW bits \in ByteValue, NEW byte \in ByteValue
  PROVE  Shifted(bits, byte) \in ByteValue
<1>1. {i \in 8..31 : i - 8 \in bits} \subseteq Int /\ byte \subseteq Int
  BY DEF ByteValue
<1> QED
  BY <1>1 DEF Shifted, ByteValue

LEMMA LengthOfType ==
  ASSUME NEW byte
  PROVE  LengthOf(byte) \in 1..64
<1> DEFINE Worth(b, w) == IF b \in byte THEN w ELSE 0
<1>1. /\ Worth(0, 1) \in 0..1 /\ Worth(1, 2) \in 0..2 /\ Worth(2, 4) \in 0..4
      /\ Worth(3, 8) \in 0..8 /\ Worth(4, 16) \in 0..16 /\ Worth(5, 32) \in 0..32
  OBVIOUS
<1>2. LengthOf(byte) = 1 + Worth(0, 1) + Worth(1, 2) + Worth(2, 4) + Worth(3, 8)
                         + Worth(4, 16) + Worth(5, 32)
  BY DEF LengthOf
<1> HIDE DEF Worth
<1> QED
  BY <1>1, <1>2

(* What the host clocks is a byte.                                         *)
LEMMA ByteAtType ==
  ASSUME NEW t \in Txns, NEW p \in 1..4 + t.len
  PROVE  ByteAt(t, p) \in ByteValue
<1>1. t.len \in 1..64 /\ t.vals \in Seq(ByteValue) /\ Len(t.vals) = t.len
  BY DEF Txns
<1>2. CASE p = 1
  BY <1>2 DEF ByteAt, Header, ByteValue
<1>3. CASE p \in 2..4
  BY <1>3, AddressByteType DEF ByteAt
<1>4. CASE p > 4
  <2>1. t.vals[p - 4] \in ByteValue
    BY <1>1, <1>4
  <2> QED
    BY <1>1, <1>4, <2>1 DEF ByteAt
<1> QED
  BY <1>1, <1>2, <1>3, <1>4

(* The bits of a number below 64 add up to it.                             *)
LEMMA SixBits ==
  \A m \in 0..63 : m = (m % 2) + 2 * ((m \div 2) % 2) + 4 * ((m \div 4) % 2)
                       + 8 * ((m \div 8) % 2) + 16 * ((m \div 16) % 2)
                       + 32 * ((m \div 32) % 2)
BY SMTT(60)

(* The handler reads from a header what the host has put into it.          *)
LEMMA HeaderRead ==
  ASSUME NEW rd \in BOOLEAN, NEW n \in 1..64
  PROVE  LengthOf(Header(rd, n)) = n /\ (7 \in Header(rd, n)) = rd
<1> DEFINE m == n - 1
           h == Header(rd, n)
           Worth(b, w) == IF b \in h THEN w ELSE 0
<1>1. m \in 0..63 /\ n = 1 + m
  OBVIOUS
<1>2. (7 \in h) = rd
  BY DEF Header
<1>3. \A b \in 0..5 : b \in h <=> (m \div 2^b) % 2 = 1
  BY DEF Header
<1>4. 2^0 = 1 /\ 2^1 = 2 /\ 2^2 = 4 /\ 2^3 = 8 /\ 2^4 = 16 /\ 2^5 = 32
  OBVIOUS
<1>5. LengthOf(h) = 1 + Worth(0, 1) + Worth(1, 2) + Worth(2, 4) + Worth(3, 8)
                      + Worth(4, 16) + Worth(5, 32)
  BY DEF LengthOf
<1> HIDE DEF m, h
<1>6. /\ 0 \in h <=> (m \div 1) % 2 = 1
      /\ 1 \in h <=> (m \div 2) % 2 = 1
      /\ 2 \in h <=> (m \div 4) % 2 = 1
      /\ 3 \in h <=> (m \div 8) % 2 = 1
      /\ 4 \in h <=> (m \div 16) % 2 = 1
      /\ 5 \in h <=> (m \div 32) % 2 = 1
  BY <1>3, <1>4
<1>7. m \div 1 = m
  BY <1>1, SMT
<1>8. /\ Worth(0, 1) = m % 2 /\ Worth(1, 2) = 2 * ((m \div 2) % 2)
      /\ Worth(2, 4) = 4 * ((m \div 4) % 2) /\ Worth(3, 8) = 8 * ((m \div 8) % 2)
      /\ Worth(4, 16) = 16 * ((m \div 16) % 2) /\ Worth(5, 32) = 32 * ((m \div 32) % 2)
  BY <1>1, <1>6, <1>7
<1> HIDE DEF Worth
<1>9. LengthOf(h) = 1 + m
  BY <1>1, <1>5, <1>8, SixBits
<1> QED
  BY <1>1, <1>2, <1>9 DEF h

(* The address is shifted in byte by byte.                                 *)
LEMMA AddressShifts ==
  ASSUME NEW r, NEW n \in 0..2
  PROVE  /\ AddressAfter(r, 0) = {}
         /\ Shifted(AddressAfter(r, n), AddressByte(r, n + 1)) = AddressAfter(r, n + 1)
<1>1. n = 0 \/ n = 1 \/ n = 2
  OBVIOUS
<1> QED
  BY <1>1 DEF AddressAfter

(* Four bits tell the registers apart.                                     *)
LEMMA AddressBits ==
  ASSUME NEW r \in Known
  PROVE  /\ 3 \in AddressAfter(r, 3) <=> r = "STS"
         /\ 5 \in AddressAfter(r, 3) <=> r = "FIFO"
         /\ 8 \in AddressAfter(r, 3) <=> r \in {"VID", "RID"}
         /\ 2 \in AddressAfter(r, 3) <=> r \in {"FIFO", "RID"}
<1> DEFINE two == Shifted(Shifted({}, AddressByte(r, 1)), AddressByte(r, 2))
<1>1. AddressAfter(r, 3) = Shifted(two, AddressByte(r, 3))
  BY DEF AddressAfter
<1>2. \A i \in 0..7 : i \in AddressAfter(r, 3) <=> i \in AddressByte(r, 3)
  BY <1>1 DEF Shifted
<1>3. 0 \in two <=> r \in {"VID", "RID"}
  BY DEF Shifted, AddressByte, Zero
<1>4. 8 \in AddressAfter(r, 3) <=> 0 \in two
  <2>1. 8 \notin AddressByte(r, 3)
    BY DEF AddressByte, Zero
  <2> HIDE DEF two
  <2> QED
    BY <1>1, <2>1 DEF Shifted
<1>5. /\ 3 \in AddressByte(r, 3) <=> r = "STS"
      /\ 5 \in AddressByte(r, 3) <=> r = "FIFO"
      /\ 2 \in AddressByte(r, 3) <=> r \in {"FIFO", "RID"}
  BY DEF AddressByte, Zero
<1> QED
  BY <1>2, <1>3, <1>4, <1>5

LEMMA RegisterFound ==
  ASSUME NEW r \in Known
  PROVE  RegisterAt(AddressAfter(r, 3)) = r
<1> DEFINE bits == AddressAfter(r, 3)
<1>1. ASSUME NEW q \in Known, bits = AddressOf[q]
      PROVE  q = r
  <2>1. AddressAfter(r, 3) = AddressAfter(q, 3)
    BY <1>1 DEF AddressOf
  <2>2. /\ r = "STS" <=> q = "STS"
        /\ r = "FIFO" <=> q = "FIFO"
        /\ r \in {"VID", "RID"} <=> q \in {"VID", "RID"}
        /\ r \in {"FIFO", "RID"} <=> q \in {"FIFO", "RID"}
    BY <2>1, AddressBits
  <2> QED
    BY <2>2 DEF Known
<1>2. bits = AddressOf[r]
  BY DEF AddressOf
<1> HIDE DEF bits
<1>3. RegisterAt(bits) = CHOOSE q \in Known : bits = AddressOf[q]
  BY <1>2 DEF RegisterAt
<1>4. RegisterAt(bits) \in Known /\ bits = AddressOf[RegisterAt(bits)]
  BY <1>2, <1>3
<1> QED
  BY <1>1, <1>4 DEF bits

(* A status byte keeps its type under the bit operations of the code.      *)
LEMMA StsType ==
  ASSUME NEW s \in [0..3 -> ByteValue], NEW i \in Nat, NEW v \in ByteValue, NEW S
  PROVE  /\ [s EXCEPT ![i] = v] \in [0..3 -> ByteValue]
         /\ [s EXCEPT ![0] = @ \ S] \in [0..3 -> ByteValue]
BY DEF ByteValue

LEMMA PushType ==
  ASSUME RegisterTypes, NEW v \in ByteValue, Push(v)
  PROVE  tx' \in Seq(ByteValue)
BY DEF RegisterTypes, Push

(* The handler, one disjunct at a time.                                    *)
LEMMA IsrFrameTypes ==
  ASSUME TypeOK, NEW byte \in ByteValue,
         \/ IsrTrailingByte(byte) \/ IsrHeader(byte)
         \/ IsrAddress(byte) \/ IsrPayload(byte)
  PROVE  FrameTypes'
<1> USE ZeroType, ShiftedType, LengthOfType DEF TypeOK, FrameTypes
<1>1. CASE IsrTrailingByte(byte)
  <2>1. isRead' \in BOOLEAN /\ lastbyte' = FALSE
    BY <1>1 DEF IsrTrailingByte
  <2>2. nbytes' \in 0..64 /\ addrbytes' \in 0..3
    BY <1>1 DEF IsrTrailingByte
  <2>3. address' \in ByteValue /\ transfered_bytes' \in Nat
    BY <1>1 DEF IsrTrailingByte, ByteValue
  <2> QED
    BY <2>1, <2>2, <2>3
<1>2. CASE IsrHeader(byte)
  <2>1. isRead' \in BOOLEAN /\ lastbyte' \in BOOLEAN /\ nbytes' \in 0..64
    BY <1>2 DEF IsrHeader
  <2>2. address' \in ByteValue /\ addrbytes' \in 0..3 /\ transfered_bytes' \in Nat
    BY <1>2 DEF IsrHeader, ByteValue
  <2> QED
    BY <2>1, <2>2
<1>3. CASE IsrAddress(byte)
  BY <1>3 DEF IsrAddress
<1>4. CASE IsrPayload(byte)
  <2>1. address' \in ByteValue /\ isRead' \in BOOLEAN /\ lastbyte' \in BOOLEAN
    BY <1>4 DEF IsrPayload
  <2>2. nbytes' \in 0..64 /\ addrbytes' \in 0..3
    BY <1>4 DEF IsrPayload, Left
  <2>3. transfered_bytes' \in Nat
    BY <1>4 DEF IsrPayload
  <2> QED
    BY <2>1, <2>2, <2>3
<1> QED
  BY <1>1, <1>2, <1>3, <1>4

LEMMA AccessStsTypes ==
  ASSUME RegisterTypes, NEW byte \in ByteValue, NEW i \in Nat, AccessSts(byte, i)
  PROVE  RegisterTypes'
<1> DEFINE written == [sts EXCEPT ![i] = byte]
<1>1. sts \in [0..3 -> ByteValue] /\ byte \in ByteValue
  BY DEF RegisterTypes
<1>2. written \in [0..3 -> ByteValue]
  BY <1>1, StsType
<1>3. [written EXCEPT ![0] = @ \ {VALID}] \in [0..3 -> ByteValue]
  <2> HIDE DEF written
  <2> QED
    BY <1>2, StsType, ZeroType
<1>4. sts' \in [0..3 -> ByteValue]
  BY <1>1, <1>3 DEF AccessSts
<1>5. (IF i \in 0..3 THEN sts[i] ELSE Zero) \in ByteValue
  BY <1>1, ZeroType
<1>6. tx' \in Seq(ByteValue)
  BY <1>5, ZeroType, PushType DEF AccessSts
<1> QED
  BY <1>4, <1>6 DEF AccessSts, fifoVars, RegisterTypes

LEMMA AccessFifoTypes ==
  ASSUME RegisterTypes, NEW byte \in ByteValue, AccessFifo(byte)
  PROVE  RegisterTypes'
<1>1. sts \in [0..3 -> ByteValue] /\ byte \in ByteValue
  BY DEF RegisterTypes
<1>2. sts' \in [0..3 -> ByteValue]
  BY <1>1, StsType, ZeroType DEF AccessFifo
<1>3. (IF fifo_fill < BufSize THEN fifo[fifo_fill] ELSE Zero) \in ByteValue
  BY ZeroType, SizeAssumption DEF RegisterTypes
<1>4. tx' \in Seq(ByteValue)
  BY <1>3, ZeroType, PushType DEF AccessFifo
<1>5. fifo' \in [0..BufSize - 1 -> ByteValue] /\ fifo_fill' \in Nat /\ fifo_rsp_max' \in Nat
  BY <1>1 DEF AccessFifo, RegisterTypes
<1> QED
  BY <1>2, <1>4, <1>5 DEF RegisterTypes

LEMMA IsrRegisterTypes ==
  ASSUME TypeOK, NEW byte \in ByteValue,
         \/ IsrTrailingByte(byte) \/ IsrHeader(byte)
         \/ IsrAddress(byte) \/ IsrPayload(byte)
  PROVE  RegisterTypes'
<1>0. RegisterTypes /\ FrameTypes
  BY DEF TypeOK
<1>1. ASSUME Push(Zero) \/ UNCHANGED tx, UNCHANGED <<sts, fifoVars>>
      PROVE  RegisterTypes'
  <2>1. tx' \in Seq(ByteValue)
    BY <1>0, <1>1, PushType, ZeroType DEF RegisterTypes
  <2> QED
    BY <1>0, <1>1, <2>1 DEF RegisterTypes, fifoVars
<1>2. CASE IsrTrailingByte(byte)
  BY <1>1, <1>2 DEF IsrTrailingByte
<1>3. CASE IsrHeader(byte)
  BY <1>1, <1>3 DEF IsrHeader
<1>4. CASE IsrAddress(byte)
  BY <1>1, <1>4 DEF IsrAddress
<1>5. CASE IsrPayload(byte)
  <2> DEFINE r    == RegisterAt(address')
             last == Left(nbytes) = 0
             i    == IF last THEN 0 ELSE transfered_bytes
  <2>1. i \in Nat
    BY <1>0 DEF FrameTypes
  <2>2. CASE r \notin {"STS", "FIFO"}
    <3>1. Push(Identity(r, i)) /\ UNCHANGED <<sts, fifoVars>>
      BY <1>5, <2>2 DEF IsrPayload
    <3>2. Identity(r, i) \in ByteValue
      BY <2>1 DEF Identity, ByteValue, Zero
    <3>3. tx' \in Seq(ByteValue)
      BY <1>0, <3>1, <3>2, PushType
    <3> QED
      BY <1>0, <3>1, <3>3 DEF fifoVars, RegisterTypes
  <2>3. CASE r = "STS"
    <3>1. AccessSts(byte, i)
      BY <1>5, <2>3 DEF IsrPayload
    <3> HIDE DEF i
    <3> QED
      BY <1>0, <2>1, <3>1, AccessStsTypes
  <2>4. CASE r = "FIFO"
    <3>1. AccessFifo(byte)
      BY <1>5, <2>4 DEF IsrPayload
    <3> QED
      BY <1>0, <3>1, AccessFifoTypes
  <2> QED
    BY <2>2, <2>3, <2>4
<1> QED
  BY <1>2, <1>3, <1>4, <1>5

LEMMA IsrType ==
  ASSUME TypeOK, Isr
  PROVE  TypeOK'
<1> DEFINE byte == ByteAt(txn, pos)
<1>1. byte \in ByteValue
  BY ByteAtType DEF TypeOK, HostTypes, Isr
<1>2. \/ IsrTrailingByte(byte) \/ IsrHeader(byte)
      \/ IsrAddress(byte) \/ IsrPayload(byte)
  BY DEF Isr
<1> HIDE DEF byte
<1>3. FrameTypes'
  BY <1>1, <1>2, IsrFrameTypes
<1>4. RegisterTypes'
  BY <1>1, <1>2, IsrRegisterTypes
<1>5. MainTypes'
  BY DEF Isr, TypeOK, MainTypes, mainVars
<1>6. HostTypes'
  BY DEF Isr, TypeOK, HostTypes, hostVars
<1> QED
  BY <1>3, <1>4, <1>5, <1>6 DEF TypeOK

-----------------------------------------------------------------------------
LEMMA BitTypes ==
  /\ {VALID, READY} \in ByteValue /\ {VALID} \in ByteValue /\ {READY} \in ByteValue
  /\ {READY, SELFTEST} \cup BURST \in ByteValue
  /\ {AVAIL} \in ByteValue /\ EndOfCommand \in ByteValue /\ {} \in ByteValue
BY DEF VALID, READY, GO, AVAIL, BURST, SELFTEST, EXPECT, EndOfCommand, ByteValue

LEMMA CallType ==
  ASSUME MainTypes, NEW set \in ByteValue, NEW unset \in ByteValue,
         NEW ret \in {"ChkValid", "ChkGo", "RspLoop"}, CallFixSTS(set, unset, ret),
         UNCHANGED <<value, executed>>
  PROVE  MainTypes'
BY DEF MainTypes, CallFixSTS, Goto, Labels, ByteValue

LEMMA FixLoadTypes ==
  ASSUME MainTypes, RegisterTypes, FixLoad
  PROVE  MainTypes'
<1> DEFINE loaded == reg \cup {8 * idx + b : b \in sts[idx] \cap 0..7}
<1>1. loaded \in ByteValue
  <2>1. \A b \in sts[idx] \cap 0..7 : 8 * idx + b \in Int
    BY DEF MainTypes
  <2>2. {8 * idx + b : b \in sts[idx] \cap 0..7} \subseteq Int
    BY <2>1
  <2>3. reg \subseteq Int
    BY DEF MainTypes, ByteValue
  <2> QED
    BY <2>2, <2>3 DEF ByteValue
<1>2. Remembered(loaded) \in ByteValue
  <2> HIDE DEF loaded
  <2> QED
    BY <1>1, BitTypes DEF Remembered, MainTypes, ByteValue
<1>3. UNCHANGED <<call, executed>>
  BY DEF FixLoad
<1>4. CASE idx < 3
  <2>1. idx' = idx + 1 /\ reg' = loaded /\ UNCHANGED <<pc, value>>
    BY <1>4 DEF FixLoad
  <2> HIDE DEF loaded
  <2> QED
    BY <1>1, <1>3, <1>4, <2>1 DEF MainTypes
<1>5. CASE ~(idx < 3)
  <2>1. idx' = 0 /\ reg' = {} /\ value' = Remembered(loaded) /\ pc' = "FixStore"
    BY <1>5 DEF FixLoad, Goto
  <2> HIDE DEF loaded
  <2> QED
    BY <1>2, <1>3, <2>1, BitTypes DEF MainTypes, Labels
<1> QED
  BY <1>4, <1>5

LEMMA ExecuteTypes ==
  ASSUME MainTypes, RegisterTypes, Execute
  PROVE  /\ MainTypes' /\ fifo' \in [0..BufSize - 1 -> ByteValue]
         /\ UNCHANGED <<sts, fifo_fill, fifo_rsp_max>>
<1>1. Request \in Nat
  <2> DEFINE Holds(j) == \A i \in 0..CmdLen - 1 : fifo[i] = CmdByte(j, i)
  <2>1. CASE \E j \in 1..NumCmds : Holds(j)
    <3>1. Request = CHOOSE j \in 1..NumCmds : Holds(j)
      BY <2>1 DEF Request
    <3> HIDE DEF Holds
    <3> QED
      BY <2>1, <3>1, SizeAssumption
  <2>2. CASE ~ \E j \in 1..NumCmds : Holds(j)
    BY <2>2 DEF Request
  <2> QED
    BY <2>1, <2>2
<1>2. \A i \in Nat : RspByte(Request, i) \in ByteValue
  BY <1>1 DEF RspByte, Stride, ByteValue
<1>3. MainTypes'
  BY <1>1 DEF Execute, MainTypes, Goto, Labels
<1>4. fifo' \in [0..BufSize - 1 -> ByteValue]
  BY <1>2, SizeAssumption DEF Execute, RegisterTypes
<1>5. UNCHANGED <<sts, fifo_fill, fifo_rsp_max>>
  BY DEF Execute
<1> QED
  BY <1>3, <1>4, <1>5

LEMMA MainStepTypes ==
  ASSUME TypeOK, MainStep
  PROVE  FrameTypes' /\ RegisterTypes' /\ MainTypes'
<1>0. FrameTypes /\ RegisterTypes /\ MainTypes /\ UNCHANGED spiVars
  BY DEF TypeOK, MainStep
<1>1. FrameTypes'
  <2>1. transfered_bytes' \in Nat
    BY <1>0 DEF FrameTypes, MainStep, FixLoad, FixStore, ChkValid, ChkGo, ReadSize,
       Execute, ResetFill, SetMax, LoadGo, ClearGo, RspLoop, EndFill, EndMax, EndXfer
  <2> QED
    BY <1>0, <2>1 DEF FrameTypes, MainStep
<1>2. CASE FixLoad
  BY <1>0, <1>1, <1>2, FixLoadTypes DEF FixLoad, RegisterTypes, fifoVars, spiVars
<1>3. CASE FixStore
  <2>1. MainTypes'
    BY <1>0, <1>3 DEF FixStore, MainTypes, Goto, Labels
  <2>2. {b \in 0..7 : 8 * idx + b \in value \cup {VALID}} \in ByteValue
    BY DEF ByteValue
  <2>3. sts' \in [0..3 -> ByteValue]
    BY <1>0, <1>3, <2>2 DEF FixStore, RegisterTypes
  <2> QED
    BY <1>0, <1>1, <1>3, <2>1, <2>3 DEF FixStore, RegisterTypes, fifoVars, spiVars
<1>4. CASE ChkValid
  <2>1. MainTypes'
    <3>1. CASE VALID \in sts[0]
      BY <1>0, <1>4, <3>1 DEF ChkValid, MainTypes, Goto, Labels
    <3>2. CASE VALID \notin sts[0]
      BY <1>0, <1>4, <3>2, CallType, BitTypes DEF ChkValid
    <3> QED
      BY <3>1, <3>2
  <2> QED
    BY <1>0, <1>1, <1>4, <2>1 DEF ChkValid, RegisterTypes, fifoVars, spiVars
<1>5. CASE ChkGo
  BY <1>0, <1>1, <1>5 DEF ChkGo, MainTypes, RegisterTypes, Goto, Labels, fifoVars, spiVars
<1>6. CASE ReadSize
  BY <1>0, <1>1, <1>6 DEF ReadSize, MainTypes, RegisterTypes, Goto, Labels, InitLabels, fifoVars, spiVars
<1>7. CASE Execute
  BY <1>0, <1>1, <1>7, ExecuteTypes DEF RegisterTypes, spiVars
<1>8. CASE ResetFill
  BY <1>0, <1>1, <1>8 DEF ResetFill, MainTypes, RegisterTypes, Goto, Labels, spiVars
<1>9. CASE SetMax
  BY <1>0, <1>1, <1>9, SizeAssumption
  DEF SetMax, ResponseSize, MainTypes, RegisterTypes, Goto, Labels, spiVars
<1>10. CASE LoadGo
  <2>1. sts[0] \ {GO} \in ByteValue
    BY <1>0 DEF RegisterTypes, ByteValue
  <2> QED
    BY <1>0, <1>1, <1>10, <2>1
    DEF LoadGo, MainTypes, RegisterTypes, Goto, Labels, fifoVars, spiVars
<1>11. CASE ClearGo
  <2>1. MainTypes'
    BY <1>0, <1>11, BitTypes DEF ClearGo, MainTypes, Goto, Labels
  <2>2. sts' \in [0..3 -> ByteValue]
    BY <1>0, <1>11 DEF ClearGo, MainTypes, RegisterTypes
  <2> QED
    BY <1>0, <1>1, <1>11, <2>1, <2>2 DEF ClearGo, RegisterTypes, fifoVars, spiVars
<1>12. CASE RspLoop
  <2>1. MainTypes'
    <3>1. CASE fifo_fill < fifo_rsp_max
      BY <1>0, <1>12, <3>1, CallType, BitTypes DEF RspLoop
    <3>2. CASE ~(fifo_fill < fifo_rsp_max)
      BY <1>0, <1>12, <3>2 DEF RspLoop, MainTypes, Goto, Labels
    <3> QED
      BY <3>1, <3>2
  <2> QED
    BY <1>0, <1>1, <1>12, <2>1 DEF RspLoop, RegisterTypes, fifoVars, spiVars
<1>13. CASE EndFill
  BY <1>0, <1>1, <1>13
  DEF EndFill, RestartFill, MainTypes, RegisterTypes, Goto, Labels, spiVars
<1>14. CASE EndMax
  BY <1>0, <1>1, <1>14, SizeAssumption
  DEF EndMax, MainTypes, RegisterTypes, Goto, Labels, spiVars
<1>15. CASE EndXfer
  <2>1. MainTypes'
    BY <1>0, <1>15, CallType, BitTypes DEF EndXfer
  <2> QED
    BY <1>0, <1>1, <1>15, <2>1 DEF EndXfer, RegisterTypes, fifoVars, spiVars
<1> QED
  BY <1>2, <1>3, <1>4, <1>5, <1>6, <1>7, <1>8, <1>9, <1>10, <1>11, <1>12, <1>13,
     <1>14, <1>15 DEF MainStep

LEMMA MainType ==
  ASSUME TypeOK, Main
  PROVE  TypeOK'
<1>1. CASE MainStep
  <2>1. HostTypes'
    BY <1>1 DEF Main, MainStep, TypeOK, HostTypes, hostVars, spiVars
  <2> QED
    BY <1>1, <2>1, MainStepTypes DEF TypeOK
<1>2. CASE TISInit
  <2>1. FrameTypes /\ RegisterTypes /\ MainTypes /\ HostTypes
    BY DEF TypeOK
  <2>2. /\ UNCHANGED <<fifo, fifo_fill, value, reg, call, executed, rxne>>
        /\ UNCHANGED hostVars
    BY <1>2 DEF Main, MainStep, TISInit, Goto
  <2>3. HostTypes'
    BY <2>1, <2>2 DEF HostTypes, hostVars
  <2>4. InitIsRead \/ InitNbytes \/ InitLastbyte \/ InitAddress \/ InitAddrbytes
          \/ InitXfer \/ InitRspMax \/ InitClear \/ InitSts \/ InitReply
    BY <1>2 DEF TISInit
  <2>5. FrameTypes'
    <3>1. /\ isRead' \in {isRead, FALSE} /\ nbytes' \in {nbytes, 0}
          /\ lastbyte' \in {lastbyte, FALSE} /\ address' \in {address, {}}
          /\ addrbytes' \in {addrbytes, 0} /\ transfered_bytes' \in {transfered_bytes, 0}
      BY <2>4 DEF InitIsRead, InitNbytes, InitLastbyte, InitAddress, InitAddrbytes,
         InitXfer, InitRspMax, InitClear, InitSts, InitReply, frameVars
    <3>2. isRead' \in BOOLEAN /\ lastbyte' \in BOOLEAN
      BY <2>1, <3>1 DEF FrameTypes
    <3>3. nbytes' \in 0..64 /\ addrbytes' \in 0..3 /\ transfered_bytes' \in Nat
      BY <2>1, <3>1 DEF FrameTypes
    <3>4. {} \in ByteValue
      BY DEF ByteValue
    <3>5. address' \in ByteValue
      BY <2>1, <3>1, <3>4 DEF FrameTypes
    <3> QED
      BY <3>2, <3>3, <3>5 DEF FrameTypes
  <2>6. RegisterTypes'
    <3>1. sts' \in [0..3 -> ByteValue]
      BY <2>1, <2>4, ZeroType, BitTypes DEF RegisterTypes, InitIsRead, InitNbytes,
         InitLastbyte, InitAddress, InitAddrbytes, InitXfer, InitRspMax, InitClear,
         InitSts, InitReply
    <3>2. fifo_rsp_max' \in Nat
      BY <2>1, <2>4 DEF RegisterTypes, InitIsRead, InitNbytes, InitLastbyte, InitAddress,
         InitAddrbytes, InitXfer, InitRspMax, InitClear, InitSts, InitReply
    <3>3. tx' \in Seq(ByteValue)
      <4>1. Push(Zero) \/ tx' = tx
        BY <2>4 DEF InitIsRead, InitNbytes, InitLastbyte, InitAddress, InitAddrbytes,
           InitXfer, InitRspMax, InitClear, InitSts, InitReply
      <4> QED
        BY <2>1, <4>1, PushType, ZeroType DEF RegisterTypes
    <3> QED
      BY <2>1, <2>2, <3>1, <3>2, <3>3 DEF RegisterTypes
  <2>7. MainTypes'
    <3>1. pc' \in Labels
      BY <2>1, <2>4 DEF MainTypes, Goto, Labels, InitLabels, InitIsRead, InitNbytes,
         InitLastbyte, InitAddress, InitAddrbytes, InitXfer, InitRspMax, InitClear,
         InitSts, InitReply
    <3>2. idx' \in 0..3
      BY <2>1, <2>4 DEF MainTypes, InitIsRead, InitNbytes, InitLastbyte, InitAddress,
         InitAddrbytes, InitXfer, InitRspMax, InitClear, InitSts, InitReply
    <3> QED
      BY <2>1, <2>2, <3>1, <3>2 DEF MainTypes
  <2> QED
    BY <2>3, <2>5, <2>6, <2>7 DEF TypeOK
<1> QED
  BY <1>1, <1>2 DEF Main

-----------------------------------------------------------------------------
(* The host.                                                               *)
LEMMA BeginTypes ==
  ASSUME HostTypes, ~rxne, rxne' = rxne,
         NEW ph \in Phases \ {"probe", "off"}, NEW j \in 1..NumCmds, NEW o \in Nat,
         ph = "load" => o < CmdLen,
         ph = "fetch" => o < RspLen,
         Begin(ph, j, o), retries' \in Nat, answers' \in Seq(Nat)
  PROVE  HostTypes'
<1>1. phase' = ph /\ k' = j /\ off' = o /\ txn' = TxnOf(ph, j, o) /\ pos' = 0
  BY DEF Begin
<1>2. txn' \in Txns
  BY <1>1, TxnOfType, SizeAssumption
<1>3. pos' \in 0..4 + txn'.len
  BY <1>1, <1>2 DEF Txns
<1>4. reply' \in Seq(ByteValue)
  BY DEF Begin, HostTypes
<1> QED
  BY <1>1, <1>2, <1>3, <1>4 DEF HostTypes

LEMMA HostClockTypes ==
  ASSUME TypeOK, HostClock
  PROVE  TypeOK'
<1>1. tx' \in Seq(ByteValue) /\ reply' \in Seq(ByteValue)
  <2>1. tx \in Seq(ByteValue) /\ reply \in Seq(ByteValue)
    BY DEF TypeOK, RegisterTypes, HostTypes
  <2>2. tx # <<>> => Head(tx) \in ByteValue /\ Tail(tx) \in Seq(ByteValue)
    BY <2>1
  <2>3. (IF tx = <<>> THEN Zero ELSE Head(tx)) \in ByteValue
    BY <2>2, ZeroType
  <2> QED
    BY <2>1, <2>2, <2>3 DEF HostClock
<1>2. pos' \in 0..4 + txn.len /\ pos' > 0 /\ rxne' \in BOOLEAN
  BY DEF HostClock, TypeOK, HostTypes, Txns
<1>3. HostTypes'
  BY <1>1, <1>2 DEF HostClock, TypeOK, HostTypes
<1>4. FrameTypes' /\ MainTypes'
  BY DEF HostClock, TypeOK, FrameTypes, MainTypes, frameVars, mainVars
<1>5. RegisterTypes'
  BY <1>1 DEF HostClock, TypeOK, RegisterTypes, fifoVars
<1> QED
  BY <1>3, <1>4, <1>5 DEF TypeOK

LEMMA HostTurnTypes ==
  ASSUME TypeOK, HostTurn
  PROVE  TypeOK'
<1>0. HostTypes /\ ~rxne /\ rxne' = rxne
  BY DEF TypeOK, HostTurn, Complete, spiVars
<1>1. k \in 1..NumCmds /\ off \in Nat /\ txn.len \in 1..64 /\ off + txn.len \in Nat
  BY <1>0 DEF HostTypes, Txns
<1>2. retries \in Nat /\ answers \in Seq(Nat)
  BY <1>0 DEF HostTypes
<1>3. {"ready", "check", "load", "go", "again", "poll", "fetch"} \subseteq Phases \ {"probe", "off"}
  BY DEF Phases
<1>4. FirstPhase \in {"ready", "check"}
  BY DEF FirstPhase
<1>5. 0 < CmdLen /\ 0 < RspLen
  BY SizeAssumption
<1>6. HostTypes'
  <2>1. CASE HostProbe
    BY <1>0, <1>1, <1>2, <1>3, <1>4, <2>1, BeginTypes DEF HostProbe
  <2>2. CASE HostReady
    BY <1>0, <1>1, <1>2, <1>3, <2>2, BeginTypes DEF HostReady
  <2>3. CASE HostCheck
    BY <1>0, <1>1, <1>2, <1>3, <1>5, <2>3, BeginTypes DEF HostCheck
  <2>4. CASE HostLoad
    BY <1>0, <1>1, <1>2, <1>3, <2>4, BeginTypes DEF HostLoad
  <2>5. CASE HostGo
    BY <1>0, <1>1, <1>2, <1>3, <2>5, BeginTypes DEF HostGo
  <2>6. CASE HostPoll
    <3>1. (IF MaxPolls = 0 THEN 0 ELSE off + 1) \in Nat
      BY <1>1
    <3> QED
      BY <1>0, <1>1, <1>2, <1>3, <1>5, <2>6, <3>1, BeginTypes DEF HostPoll
  <2>7. CASE HostRetry
    BY <1>0, <1>1, <1>2, <1>3, <2>7, BeginTypes DEF HostRetry
  <2>9. CASE HostFetch
    <3>1. CASE off + txn.len < RspLen
      BY <1>0, <1>1, <1>2, <1>3, <2>9, <3>1, BeginTypes DEF HostFetch
    <3>2. CASE ~(off + txn.len < RspLen)
      <4>1. Decode(reply) \in Nat
        <5> DEFINE Answers(j) == reply = [i \in 1..RspLen |-> RspByte(j, i - 1)]
        <5>1. CASE \E j \in 1..NumCmds : Answers(j)
          <6>1. Decode(reply) = CHOOSE j \in 1..NumCmds : Answers(j)
            BY <5>1 DEF Decode
          <6> HIDE DEF Answers
          <6> QED
            BY <5>1, <6>1
        <5>2. CASE ~ \E j \in 1..NumCmds : Answers(j)
          BY <5>2 DEF Decode
        <5> QED
          BY <5>1, <5>2
      <4>2. answers' \in Seq(Nat) /\ retries' \in Nat
        BY <1>2, <2>9, <3>2, <4>1 DEF HostFetch
      <4>3. CASE k < NumCmds
        <5>1. k + 1 \in 1..NumCmds /\ Begin(FirstPhase, k + 1, 0)
          BY <1>1, <2>9, <3>2, <4>3, SizeAssumption DEF HostFetch
        <5> QED
          BY <1>0, <1>3, <1>4, <4>2, <5>1, BeginTypes
      <4>4. CASE ~(k < NumCmds)
        <5>1. phase' = "off" /\ UNCHANGED <<k, off, txn, pos, reply>>
          BY <2>9, <3>2, <4>4 DEF HostFetch
        <5> QED
          BY <1>0, <4>2, <5>1 DEF HostTypes, Phases
      <4> QED
        BY <4>3, <4>4
    <3> QED
      BY <3>1, <3>2
  <2> QED
    BY <2>1, <2>2, <2>3, <2>4, <2>5, <2>6, <2>7, <2>9 DEF HostTurn
<1>7. FrameTypes' /\ RegisterTypes' /\ MainTypes'
  BY DEF HostTurn, TypeOK, FrameTypes, RegisterTypes, MainTypes,
         fifoVars, frameVars, mainVars, spiVars
<1> QED
  BY <1>6, <1>7 DEF TypeOK

LEMMA InitTypes ==
  ASSUME Init
  PROVE  TypeOK
<1>1. FrameTypes
  <2>1. isRead \in BOOLEAN /\ lastbyte \in BOOLEAN /\ address \in ByteValue
    BY DEF Init, ByteValue
  <2>2. nbytes \in 0..64 /\ addrbytes \in 0..3 /\ transfered_bytes \in Nat
    BY DEF Init
  <2> QED
    BY <2>1, <2>2 DEF FrameTypes
<1>2. RegisterTypes
  BY ZeroType, BitTypes DEF Init, RegisterTypes
<1>3. MainTypes
  BY BitTypes DEF Init, MainTypes, Labels
<1>4. HostTypes
  <2>1. PICK r \in {"ACCESS", "VID", "RID"} : txn = Read(r, StsRead)
    BY DEF Init
  <2>2. r \in Known /\ StsRead \in 1..64
    BY HostAssumption DEF Known
  <2>3. txn \in Txns
    BY <2>1, <2>2, ReadType
  <2>4. pos \in 0..4 + txn.len
    BY <2>3 DEF Init, Txns
  <2>5. /\ phase \in Phases /\ k \in 1..NumCmds /\ off \in Nat /\ retries \in Nat
        /\ reply \in Seq(ByteValue) /\ answers \in Seq(Nat)
        /\ phase # "load" /\ phase # "fetch"
    BY SizeAssumption DEF Init, Phases
  <2>6. rxne = FALSE
    BY DEF Init
  <2> QED
    BY <2>3, <2>4, <2>5, <2>6 DEF HostTypes
<1> QED
  BY <1>1, <1>2, <1>3, <1>4 DEF TypeOK

LEMMA TypeStep ==
  ASSUME TypeOK, [Next]_vars
  PROVE  TypeOK'
<1>1. CASE Next
  BY <1>1, IsrType, MainType, HostClockTypes, HostTurnTypes DEF Next, Host
<1>2. CASE UNCHANGED vars
  BY <1>2 DEF TypeOK, FrameTypes, RegisterTypes, MainTypes, HostTypes, vars,
     fifoVars, frameVars, mainVars, spiVars, hostVars
<1> QED
  BY <1>1, <1>2

(* The state of the firmware, of the SPI queue and of the host keeps its   *)
(* types for every command, response and transaction length, with and      *)
(* without oversized commands: nbytes, addrbytes and the index of fixSTS   *)
(* never leave their ranges, and no transaction exceeds 64 payload bytes.  *)
THEOREM TypeCorrect == Spec => []TypeOK
<1>1. Init => TypeOK
  BY InitTypes
<1>2. TypeOK /\ [Next]_vars => TypeOK'
  BY TypeStep
<1> QED
  BY <1>1, <1>2, PTL DEF Spec

-----------------------------------------------------------------------------
(* Framing.  TIS_init runs again only for an oversized command; without    *)
(* one the parser is touched by the handler alone.                         *)
NoReinit == pc \notin InitLabels

FrameInv == TypeOK /\ NoReinit /\ InFrame /\ ReplyStaged

LEMMA InitEnters ==
  ASSUME TISInit
  PROVE  pc \in InitLabels
BY DEF TISInit, InitLabels, InitIsRead, InitNbytes, InitLastbyte, InitAddress,
   InitAddrbytes, InitXfer, InitRspMax, InitClear, InitSts, InitReply

LEMMA NoReinitInit ==
  Init => NoReinit
BY DEF Init, NoReinit, InitLabels

LEMMA NoReinitStep ==
  ASSUME Oversized = {}, TypeOK, NoReinit, [Next]_vars
  PROVE  NoReinit'
<1>1. call.ret \in {"ChkValid", "ChkGo", "RspLoop"}
  BY DEF TypeOK, MainTypes
<1>2. CASE MainStep
  BY <1>1, <1>2 DEF MainStep, NoReinit, InitLabels, Goto, CallFixSTS, FixLoad, FixStore, ChkValid, ChkGo,
     ReadSize, TooLarge, Execute, ResetFill, SetMax, LoadGo, ClearGo, RspLoop, EndFill,
     EndMax, EndXfer
<1>3. CASE UNCHANGED pc
  BY <1>3 DEF NoReinit
<1>4. MainStep \/ UNCHANGED pc
  BY InitEnters DEF Next, Main, NoReinit, Isr, Host, HostClock, HostTurn, mainVars, vars
<1> QED
  BY <1>2, <1>3, <1>4

(* What the frame invariant says in integers, so that the steps need not   *)
(* look into the records of the transactions.                              *)
LEMMA TxnTypes ==
  ASSUME TypeOK
  PROVE  /\ txn.rd \in BOOLEAN /\ txn.len \in 1..64 /\ txn.reg \in Known
         /\ pos \in 0..4 + txn.len /\ rxne \in BOOLEAN
         /\ Handled \in 0..4 + txn.len /\ Accessed \in 0..txn.len
         /\ (rxne => pos \in 1..4 + txn.len)
<1>1. /\ txn.rd \in BOOLEAN /\ txn.len \in 1..64 /\ txn.reg \in Known
      /\ pos \in 0..4 + txn.len /\ rxne \in BOOLEAN /\ (rxne => pos > 0)
  BY DEF TypeOK, HostTypes, Txns
<1>2. Handled \in 0..4 + txn.len
  BY <1>1 DEF Handled
<1>3. Accessed \in 0..txn.len
  BY <1>1, <1>2 DEF Accessed
<1> QED
  BY <1>1, <1>2, <1>3

(* Which disjunct of the handler the byte reaches, and what the handler    *)
(* knows of the transaction then.                                          *)
LEMMA IsrCases ==
  ASSUME FrameInv, Isr
  PROVE  /\ txn.rd \in BOOLEAN /\ txn.len \in 1..64 /\ pos \in 1..4 + txn.len
         /\ rxne /\ rxne' = FALSE /\ UNCHANGED <<mainVars, hostVars>>
         /\ Handled = pos - 1 /\ Handled' = pos
         /\ \/ pos = 1 /\ IsrHeader(ByteAt(txn, pos)) /\ nbytes = 0 /\ lastbyte = FALSE
            \/ /\ pos \in 2..3 \/ (pos = 4 /\ ~txn.rd)
               /\ IsrAddress(ByteAt(txn, pos))
               /\ nbytes = txn.len /\ addrbytes = pos - 2 /\ isRead = txn.rd /\ ~lastbyte
               /\ address = AddressAfter(txn.reg, pos - 2)
            \/ /\ pos = 4 + txn.len /\ txn.rd
               /\ IsrTrailingByte(ByteAt(txn, pos)) /\ nbytes = 0
            \/ /\ pos > 4 - (IF txn.rd THEN 1 ELSE 0)
               /\ ~(pos = 4 + txn.len /\ txn.rd)
               /\ IsrPayload(ByteAt(txn, pos))
               /\ nbytes = (IF txn.rd THEN txn.len - (pos - 4) ELSE txn.len - (pos - 5))
               /\ isRead = txn.rd /\ ~lastbyte
               /\ addrbytes = (IF pos = 4 THEN 2 ELSE 3)
               /\ address = AddressAfter(txn.reg, addrbytes)
<1> DEFINE byte == ByteAt(txn, pos)
           n    == txn.len
<1>1. /\ txn.rd \in BOOLEAN /\ n \in 1..64 /\ rxne /\ pos \in 1..4 + n
      /\ rxne' = FALSE /\ UNCHANGED <<mainVars, hostVars>>
      /\ Handled = pos - 1 /\ Handled' = pos
  BY TxnTypes DEF FrameInv, Isr, hostVars, Handled
<1>2. \/ IsrTrailingByte(byte) \/ IsrHeader(byte)
      \/ IsrAddress(byte) \/ IsrPayload(byte)
  BY DEF Isr
<1>3. Accessed = IF txn.rd THEN IF pos < 5 THEN 0 ELSE IF pos - 4 > n THEN n ELSE pos - 4
                 ELSE IF pos < 6 THEN 0 ELSE pos - 5
  BY <1>1 DEF Accessed
<1>4. /\ nbytes = (IF pos = 1 THEN 0 ELSE n - Accessed)
      /\ nbytes > 0 => /\ isRead = txn.rd
                       /\ addrbytes = (IF pos < 5 THEN pos - 2 ELSE 3)
                       /\ address = AddressAfter(txn.reg, addrbytes)
      /\ lastbyte <=> txn.rd /\ pos = 4 + n
      /\ lastbyte => isRead
  BY <1>1 DEF FrameInv, InFrame
<1>5. /\ addrbytes \in 0..3 /\ nbytes \in 0..64
      /\ isRead \in BOOLEAN /\ lastbyte \in BOOLEAN
  BY DEF FrameInv, TypeOK, FrameTypes
<1> HIDE DEF byte, n
<1>6. CASE pos = 1
  <2>1. nbytes = 0 /\ ~lastbyte
    BY <1>1, <1>4, <1>6
  <2>2. IsrHeader(byte)
    BY <1>2, <2>1 DEF IsrTrailingByte, IsrHeader, IsrAddress, IsrPayload, IsTrailer
  <2> QED
    BY <1>1, <1>5, <1>6, <2>1, <2>2 DEF byte, n
<1>7. CASE pos \in 2..3 \/ (pos = 4 /\ ~txn.rd)
  <2>1. /\ nbytes = n /\ addrbytes = pos - 2 /\ isRead = txn.rd /\ ~lastbyte
        /\ address = AddressAfter(txn.reg, pos - 2)
    BY <1>1, <1>3, <1>4, <1>7
  <2>2. nbytes # 0 /\ ~(addrbytes = 3 \/ (addrbytes = 2 /\ isRead))
    BY <1>1, <1>7, <2>1
  <2>3. IsrAddress(byte)
    BY <1>2, <2>2 DEF IsrTrailingByte, IsrHeader, IsrPayload
  <2> QED
    BY <1>1, <1>7, <2>1, <2>3 DEF byte, n
<1>8. CASE pos = 4 + n /\ txn.rd
  <2>1. nbytes = 0 /\ lastbyte /\ isRead
    BY <1>1, <1>3, <1>4, <1>8
  <2>2. IsrTrailingByte(byte)
    BY <1>2, <2>1 DEF IsrTrailingByte, IsrHeader, IsrAddress, IsrPayload, IsTrailer
  <2> QED
    BY <1>1, <1>8, <2>1, <2>2 DEF byte, n
<1>9. CASE (pos = 4 /\ txn.rd) \/ (pos >= 5 /\ ~(pos = 4 + n /\ txn.rd))
  <2>1. /\ nbytes = (IF txn.rd THEN n - (pos - 4) ELSE n - (pos - 5))
        /\ nbytes > 0 /\ ~lastbyte
    BY <1>1, <1>3, <1>4, <1>9
  <2>2. /\ isRead = txn.rd
        /\ addrbytes = (IF pos = 4 THEN 2 ELSE 3)
        /\ addrbytes = 2 => isRead
        /\ address = AddressAfter(txn.reg, addrbytes)
    BY <1>1, <1>4, <1>9, <2>1
  <2>3. nbytes # 0 /\ ~(addrbytes < 3 /\ (addrbytes < 2 \/ ~isRead))
    BY <1>5, <2>1, <2>2
  <2>4. IsrPayload(byte)
    BY <1>2, <2>3 DEF IsrTrailingByte, IsrHeader, IsrAddress
  <2>5. pos > 4 - (IF txn.rd THEN 1 ELSE 0) /\ ~(pos = 4 + n /\ txn.rd)
    BY <1>1, <1>9
  <2> QED
    BY <1>1, <2>1, <2>2, <2>4, <2>5 DEF byte, n
<1>10. \/ pos = 1
       \/ pos \in 2..3 \/ (pos = 4 /\ ~txn.rd)
       \/ pos = 4 + n /\ txn.rd
       \/ (pos = 4 /\ txn.rd) \/ (pos >= 5 /\ ~(pos = 4 + n /\ txn.rd))
  BY <1>1
<1> QED
  BY <1>6, <1>7, <1>8, <1>9, <1>10

(* The handler keeps step with the host.                                   *)
LEMMA IsrFrame ==
  ASSUME FrameInv, Isr
  PROVE  InFrame' /\ ReplyStaged'
<1> DEFINE byte == ByteAt(txn, pos)
           n    == txn.len
<1>1. /\ txn.rd \in BOOLEAN /\ n \in 1..64 /\ pos \in 1..4 + n
      /\ rxne /\ rxne' = FALSE /\ txn' = txn /\ pos' = pos
      /\ Handled = pos - 1 /\ Handled' = pos
  BY IsrCases DEF hostVars
<1>2. /\ pos = 1 => LengthOf(byte) = n /\ (7 \in byte) = txn.rd
      /\ pos \in 2..4 => byte = AddressByte(txn.reg, pos - 1)
  BY <1>1, HeaderRead DEF ByteAt
<1>3. Accessed' = IF txn.rd THEN IF pos < 4 THEN 0 ELSE IF pos - 3 > n THEN n ELSE pos - 3
                  ELSE IF pos < 5 THEN 0 ELSE pos - 4
  BY <1>1 DEF Accessed
<1>4. Len(tx) = 0 /\ tx \in Seq(ByteValue)
  BY <1>1 DEF FrameInv, ReplyStaged, TypeOK, RegisterTypes
<1>5. \A v : Len(Append(tx, v)) = 1
  BY <1>4
(* The new values, in terms of the bytes handled.                          *)
<1>6. ASSUME nbytes' = n - Accessed',
             nbytes' > 0 => /\ isRead' = txn.rd
                            /\ addrbytes' = (IF pos < 4 THEN pos - 1 ELSE 3)
                            /\ address' = AddressAfter(txn.reg, addrbytes'),
             lastbyte' <=> txn.rd /\ pos = 3 + n,
             lastbyte' => isRead',
             Len(tx') = (IF ~txn.rd /\ pos = 4 THEN 0 ELSE 1)
      PROVE  InFrame' /\ ReplyStaged'
  <2>1. InFrame'
    BY <1>1, <1>6 DEF InFrame
  <2>2. ReplyStaged'
    BY <1>1, <1>6 DEF ReplyStaged
  <2> QED
    BY <2>1, <2>2
<1> HIDE DEF byte, n
<1>7. CASE pos = 1 /\ IsrHeader(byte) /\ lastbyte = FALSE
  <2>1. /\ nbytes' = n /\ isRead' = txn.rd /\ addrbytes' = 0 /\ lastbyte' = FALSE
        /\ address' = {} /\ tx' = Append(tx, Zero)
    BY <1>2, <1>7 DEF IsrHeader, Push
  <2>4. address' = AddressAfter(txn.reg, addrbytes')
    BY <2>1, AddressShifts
  <2>2. Len(tx') = 1
    BY <1>5, <2>1
  <2>3. Accessed' = 0 /\ pos # 3 + n /\ pos < 4
    BY <1>1, <1>3, <1>7
  <2> QED
    BY <1>1, <1>6, <1>7, <2>1, <2>2, <2>3, <2>4
<1>8. CASE /\ pos \in 2..3 \/ (pos = 4 /\ ~txn.rd)
           /\ IsrAddress(byte)
           /\ nbytes = n /\ addrbytes = pos - 2 /\ isRead = txn.rd /\ ~lastbyte
           /\ address = AddressAfter(txn.reg, pos - 2)
  <2>1. /\ nbytes' = n /\ isRead' = txn.rd /\ addrbytes' = pos - 1 /\ lastbyte' = lastbyte
        /\ address' = Shifted(address, byte)
        /\ tx' = IF pos < 4 THEN Append(tx, Zero) ELSE tx
    BY <1>1, <1>8 DEF IsrAddress, Push, AnswersAddress
  <2>2. address' = AddressAfter(txn.reg, addrbytes')
    <3>1. pos - 2 \in 0..2 /\ (pos - 2) + 1 = pos - 1 /\ pos \in 2..4
      BY <1>1, <1>8
    <3>2. Shifted(AddressAfter(txn.reg, pos - 2), AddressByte(txn.reg, pos - 1))
            = AddressAfter(txn.reg, pos - 1)
      BY <3>1, AddressShifts
    <3> QED
      BY <1>2, <1>8, <2>1, <3>1, <3>2
  <2>3. Len(tx') = IF pos < 4 THEN 1 ELSE 0
    BY <1>4, <1>5, <2>1
  <2>4. n = n - Accessed' /\ (pos < 4 <=> pos # 4) /\ (pos = 4 => ~txn.rd) /\ pos <= 4
        /\ (pos = 3 + n => txn.rd = FALSE)
    BY <1>1, <1>3, <1>8
  <2> QED
    BY <1>1, <1>6, <1>8, <2>1, <2>2, <2>3, <2>4
<1>9. CASE pos = 4 + n /\ txn.rd /\ IsrTrailingByte(byte) /\ nbytes = 0
  <2>1. nbytes' = 0 /\ lastbyte' = FALSE /\ tx' = Append(tx, Zero)
    BY <1>9 DEF IsrTrailingByte, Push
  <2>2. Len(tx') = 1
    BY <1>5, <2>1
  <2>3. n - Accessed' = 0 /\ pos # 3 + n
    BY <1>1, <1>3, <1>9
  <2> QED
    BY <1>6, <1>9, <2>1, <2>2, <2>3
<1>10. CASE /\ pos > 4 - (IF txn.rd THEN 1 ELSE 0)
            /\ ~(pos = 4 + n /\ txn.rd)
            /\ IsrPayload(byte)
            /\ nbytes = (IF txn.rd THEN n - (pos - 4) ELSE n - (pos - 5))
            /\ isRead = txn.rd /\ ~lastbyte
            /\ addrbytes = (IF pos = 4 THEN 2 ELSE 3)
            /\ address = AddressAfter(txn.reg, addrbytes)
  <2>1. /\ nbytes' = nbytes - 1 /\ isRead' = isRead
        /\ lastbyte' = (IF nbytes - 1 = 0 /\ isRead THEN TRUE ELSE lastbyte)
        /\ addrbytes' = (IF nbytes - 1 = 0 THEN 0 ELSE 3)
        /\ address' = (IF addrbytes = 3 THEN address ELSE Shifted(address, byte))
    BY <1>10 DEF IsrPayload, Left
  <2>2. address' = AddressAfter(txn.reg, 3)
    BY <1>2, <1>10, <2>1, AddressShifts
  <2>3. PICK v : tx' = Append(tx, v)
    BY <1>10 DEF IsrPayload, AccessSts, AccessFifo, Push
  <2>4. Len(tx') = 1
    BY <1>5, <2>3
  <2>5. nbytes - 1 = n - Accessed' /\ pos >= 4 /\ (pos = 4 => txn.rd)
    BY <1>1, <1>3, <1>10
  <2>6. nbytes - 1 = 0 /\ isRead <=> txn.rd /\ pos = 3 + n
    BY <1>1, <1>10
  <2>7. lastbyte' <=> txn.rd /\ pos = 3 + n
    BY <1>10, <2>1, <2>6
  <2>8. nbytes' > 0 => nbytes - 1 # 0
    BY <2>1
  <2> QED
    BY <1>1, <1>6, <1>10, <2>1, <2>2, <2>4, <2>5, <2>6, <2>7, <2>8
<1> QED
  BY <1>7, <1>8, <1>9, <1>10, IsrCases DEF byte, n

(* A step that touches neither the parser, nor the queues, nor the host.   *)
LEMMA QuietFrame ==
  ASSUME InFrame, ReplyStaged,
         UNCHANGED <<isRead, nbytes, addrbytes, lastbyte, address, rxne, tx, txn, pos>>
  PROVE  InFrame' /\ ReplyStaged'
BY DEF InFrame, ReplyStaged, Handled, Accessed

(* The next byte is clocked: none is handled.                              *)
LEMMA HostClockFrame ==
  ASSUME FrameInv, HostClock
  PROVE  InFrame' /\ ReplyStaged'
<1>1. /\ pos \in 0..4 + txn.len /\ txn.len \in 1..64 /\ rxne = FALSE
      /\ pos' = pos + 1 /\ rxne' = TRUE /\ txn' = txn
  BY TxnTypes DEF FrameInv, HostClock
<1>2. Handled' = Handled /\ Accessed' = Accessed
  BY <1>1 DEF Handled, Accessed
<1>3. InFrame'
  BY <1>1, <1>2 DEF FrameInv, InFrame, HostClock, frameVars
<1>4. tx \in Seq(ByteValue) /\ Len(tx) \in 0..1
  BY DEF FrameInv, ReplyStaged, TypeOK, RegisterTypes
<1>5. Len(tx') = 0
  BY <1>4 DEF HostClock
<1> QED
  BY <1>1, <1>3, <1>5 DEF ReplyStaged

(* The next transaction begins once the last byte of the previous one has  *)
(* been handled: no payload is left, none but one reply byte is staged.    *)
LEMMA HostTurnFrame ==
  ASSUME FrameInv, HostTurn
  PROVE  InFrame' /\ ReplyStaged'
<1>1. /\ UNCHANGED <<isRead, nbytes, addrbytes, lastbyte, address, rxne, tx>>
      /\ pos = 4 + txn.len /\ rxne = FALSE /\ txn.len \in 1..64
  BY TxnTypes DEF FrameInv, HostTurn, frameVars, spiVars, Complete
<1>2. CASE UNCHANGED <<txn, pos>>
  BY <1>1, <1>2, QuietFrame DEF FrameInv
<1>3. CASE pos' = 0
  <2>1. Handled = 4 + txn.len /\ Handled # 0 /\ Handled # 4 /\ Handled # 3 + txn.len
    BY <1>1 DEF Handled
  <2>2. Accessed = txn.len
    BY <1>1, <2>1 DEF Accessed
  <2>3. nbytes' = 0 /\ lastbyte' = FALSE /\ Len(tx') = 1
    <3>1. nbytes = 0
      BY <1>1, <2>1, <2>2 DEF FrameInv, InFrame
    <3>2. ~lastbyte
      BY <2>1 DEF FrameInv, InFrame
    <3>3. Len(tx) = 1
      BY <1>1, <2>1 DEF FrameInv, ReplyStaged
    <3>4. lastbyte \in BOOLEAN
      BY DEF FrameInv, TypeOK, FrameTypes
    <3> QED
      BY <1>1, <3>1, <3>2, <3>3, <3>4
  <2>4. Handled' = 0 /\ rxne' = FALSE
    BY <1>1, <1>3 DEF Handled
  <2>5. TypeOK'
    BY HostTurnTypes DEF FrameInv
  <2>6. txn'.len \in 1..64
    BY <2>5 DEF TypeOK, HostTypes, Txns
  <2>7. InFrame'
    BY <2>3, <2>4, <2>6 DEF InFrame
  <2>8. ReplyStaged'
    BY <2>3, <2>4 DEF ReplyStaged
  <2> QED
    BY <2>7, <2>8
<1>4. UNCHANGED <<txn, pos>> \/ pos' = 0
  BY DEF HostTurn, HostProbe, HostReady, HostCheck, HostLoad, HostGo, HostPoll, HostRetry,
     HostFetch, Begin
<1> QED
  BY <1>2, <1>3, <1>4

LEMMA FrameInit ==
  ASSUME Init
  PROVE  InFrame /\ ReplyStaged
<1>1. /\ Handled = 0 /\ nbytes = 0 /\ lastbyte = FALSE /\ Len(tx) = 1 /\ rxne = FALSE
  BY DEF Init, Handled
<1>2. txn.len \in 1..64
  BY InitTypes DEF TypeOK, HostTypes, Txns
<1>3. InFrame
  BY <1>1, <1>2 DEF InFrame
<1> QED
  BY <1>1, <1>3 DEF ReplyStaged

(* For every command, response and transaction length, and however the     *)
(* handler interleaves with main, the parser stays in step with the host's *)
(* byte stream and one reply byte is staged for every byte that needs one. *)
THEOREM FramingCorrect ==
  ASSUME Oversized = {}
  PROVE  Spec => [](InFrame /\ ReplyStaged)
<1>1. Init => FrameInv
  BY InitTypes, NoReinitInit, FrameInit DEF FrameInv
<1>2. FrameInv /\ [Next]_vars => FrameInv'
  <2> SUFFICES ASSUME FrameInv, [Next]_vars PROVE FrameInv'
    OBVIOUS
  <2>1. TypeOK /\ NoReinit
    BY DEF FrameInv
  <2>2. NoReinit'
    BY <2>1, NoReinitStep
  <2>3. TypeOK'
    BY <2>1, TypeStep
  <2>4. InFrame' /\ ReplyStaged'
    <3>1. CASE Isr
      BY <3>1, IsrFrame
    <3>2. CASE HostClock
      BY <3>2, HostClockFrame
    <3>3. CASE HostTurn
      BY <3>3, HostTurnFrame
    <3>4. CASE Main
      <4>1. MainStep /\ UNCHANGED hostVars
        BY <2>1, <3>4, InitEnters DEF Main, NoReinit
      <4> QED
        BY <4>1, QuietFrame DEF FrameInv, MainStep, spiVars, hostVars
    <3>5. CASE UNCHANGED vars
      BY <3>5, QuietFrame DEF FrameInv, vars, frameVars, spiVars, hostVars
    <3> QED
      BY <3>1, <3>2, <3>3, <3>4, <3>5 DEF Next, Host
  <2> QED
    BY <2>1, <2>2, <2>3, <2>4 DEF FrameInv
<1>3. FrameInv => InFrame /\ ReplyStaged
  BY DEF FrameInv
<1> QED
  BY <1>1, <1>2, <1>3, PTL DEF Spec

(* One reply byte is staged for every byte the host clocks, so the bytes   *)
(* it reads never shift against those it asked for.                        *)
THEOREM RepliesStaged ==
  ASSUME Oversized = {}
  PROVE  Spec => []ReplyStaged
<1>1. Spec => [](InFrame /\ ReplyStaged)
  BY FramingCorrect
<1> QED
  BY <1>1, PTL

-----------------------------------------------------------------------------
(* The exchange of commands and responses.                                 *)

Upto(n) == [i \in 1..n |-> i]

-----------------------------------------------------------------------------
(* Where main is, seen from the exchange it is in.                         *)

Fixing == pc \in {"FixLoad", "FixStore"}

(* Polling, with the status of the last command already taken down.        *)
Idle ==
  \/ pc \in {"ChkValid", "ChkGo"}
  \/ Fixing /\ call.ret = "ChkGo"
  \/ pc = "FixStore" /\ call.ret = "ChkValid" /\ idx > 0

Taking == pc \in {"ReadSize", "Execute"}
Staging == pc \in {"ResetFill", "SetMax", "LoadGo", "ClearGo"}
Offering == pc = "RspLoop" \/ (Fixing /\ call.ret = "RspLoop")
Closing ==
  \/ pc \in {"EndMax", "EndXfer"}
  \/ pc = "FixLoad" /\ call.ret = "ChkValid"
  \/ pc = "FixStore" /\ call.ret = "ChkValid" /\ idx = 0
Ending == pc = "EndFill" \/ Closing

(* Where the host is: the command not submitted, submitted, its response   *)
(* being read, read.                                                       *)
Unasked == phase \in {"probe", "ready", "check", "load"} \/ (phase = "go" /\ Accessed = 0)
Asked == phase \in {"again", "poll"} \/ (phase = "go" /\ Accessed > 0)
Reading == phase = "fetch" /\ off + Accessed < RspLen
Fetched == phase = "off" \/ (phase = "fetch" /\ off + Accessed = RspLen)

Clear(b) == b \notin sts[0] \cup value \cup reg
HasCommand == \A i \in 0..CmdLen - 1 : fifo[i] = CmdByte(k, i)
HasResponse == \A i \in 0..RspLen - 1 : fifo[i] = RspByte(k, i)

(* The locals of main and of fixSTS.                                       *)
Locals ==
  /\ pc \notin {"FixLoad", "ClearGo"} => reg = {}
  /\ pc = "FixLoad" /\ idx = 0 => reg = {}
  /\ Fixing /\ call.ret = "RspLoop" => call.set = {AVAIL} /\ call.unset = {}
  /\ Fixing /\ call.ret = "ChkGo" => AVAIL \notin call.set /\ GO \notin call.set
  /\ Fixing /\ call.ret = "ChkValid" =>
       call.unset = EndOfCommand /\ AVAIL \notin call.set /\ GO \notin call.set
  /\ pc = "FixStore" /\ call.ret = "RspLoop" => AVAIL \in value
  /\ pc = "FixStore" /\ call.ret = "ChkValid" => {AVAIL, GO} \cap value = {}

(* The transaction belongs to the phase of the host, and the index of the  *)
(* first payload byte is 0.                                                *)
Transaction ==
  /\ phase \notin {"probe", "off"} => txn = TxnOf(phase, k, off)
  /\ phase = "probe" => k = 1 /\ txn.reg \notin {"STS", "FIFO"}
  /\ phase = "off" => Complete
  /\ Handled \in 1..3 => transfered_bytes = 0

(* Between two commands main ends the last one, and then is idle.          *)
AtRest ==
  /\ Idle \/ Ending \/ Offering
  /\ Idle => Clear(GO) /\ Clear(AVAIL)
  /\ Offering => fifo_fill = RspLen /\ fifo_rsp_max = RspLen
  /\ Closing => fifo_fill = 0

UnaskedInv ==
  /\ AtRest /\ executed = Upto(k - 1)
  /\ k = 1 \/ phase \in {"load", "go"} => Idle
  /\ Idle /\ phase \notin {"load", "go"} => fifo_fill = 0
  /\ phase = "check" \/ (phase = "ready" /\ Accessed > 0) =>
       Idle \/ VALID \notin sts[0] \/ AVAIL \in sts[0]
  /\ phase = "load" =>
       /\ fifo_fill = off + Accessed
       /\ \A i \in 0..off + Accessed - 1 : fifo[i] = CmdByte(k, i)
  /\ phase = "go" => k \notin Oversized /\ HasCommand

AskedInv ==
  /\ k \notin Oversized
  /\ \/ /\ Idle \/ Taking
        /\ executed = Upto(k - 1) /\ HasCommand /\ Clear(AVAIL)
     \/ /\ Staging \/ Offering
        /\ executed = Upto(k) /\ HasResponse
        /\ Staging => Clear(AVAIL)
        /\ pc # "ResetFill" => fifo_fill = 0
        /\ pc \notin {"ResetFill", "SetMax"} => fifo_rsp_max = RspLen

ReadingInv ==
  /\ k \notin Oversized
  /\ Offering
  /\ executed = Upto(k) /\ HasResponse
  /\ fifo_fill = off + Accessed /\ fifo_rsp_max = RspLen
  /\ AVAIL \in sts[0]

FetchedInv ==
  /\ k \notin Oversized
  /\ AtRest /\ executed = Upto(k)
  /\ Idle => fifo_fill = 0

(* What the host has read and is about to read.                            *)
SaysReady(b) == {VALID, READY} \subseteq b /\ AVAIL \notin b
ReadyHolds(b) == SaysReady(b) => Idle
AvailHolds(b) == AVAIL \in b => Offering /\ AVAIL \in sts[0]

Received == IF pos > 4 THEN pos - 4 ELSE 0

Replies ==
  /\ phase \in {"check", "poll"} /\ pos <= 4 => reply = <<>>
  /\ phase = "check" =>
       /\ ~rxne /\ pos = 4 => ReadyHolds(Head(tx))
       /\ pos > 4 => Len(reply) > 0 /\ ReadyHolds(reply[1])
  /\ phase = "poll" =>
       /\ ~rxne /\ pos = 4 => AvailHolds(Head(tx))
       /\ pos > 4 => Len(reply) > 0 /\ AvailHolds(reply[1])
  /\ phase = "fetch" =>
       /\ reply = [i \in 1..off + Received |-> RspByte(k, i - 1)]
       /\ ~rxne /\ pos \in 4..3 + txn.len => Head(tx) = RspByte(k, off + pos - 4)

Stages ==
  /\ Unasked => UnaskedInv
  /\ Asked => AskedInv
  /\ Reading => ReadingInv
  /\ Fetched => FetchedInv

Normal ==
  /\ FrameInv /\ Locals /\ Transaction /\ Replies
  /\ answers = Upto(IF phase = "off" THEN k ELSE k - 1)
  /\ \A j \in 1..k - 1 : j \notin Oversized
  /\ Stages

(* The host has submitted an oversized command, or is about to with its    *)
(* next byte.  Its first byte stays at the start of the buffer, because    *)
(* nothing on this path moves fifo_fill back to 0: main refuses whatever   *)
(* tpmGo it sees, however the parser that TIS_init reset in the middle of  *)
(* the host's stream reads the bytes that follow.                          *)
RefusingPc ==
  \/ pc \in {"ChkValid", "ChkGo", "ReadSize"} \cup InitLabels
  \/ Fixing /\ call.ret \in {"ChkGo", "ChkValid"}

Submitting ==
  /\ phase = "go" /\ Accessed = 0 /\ k \in Oversized
  /\ executed = Upto(k - 1) /\ answers = Upto(k - 1)

Refusing ==
  /\ TypeOK
  /\ \E j \in Oversized : fifo[0] = CmdByte(j, 0)
  /\ fifo_fill # 0
  /\ RefusingPc
  /\ NeverExecutesOversized
  /\ Refused \/ Submitting

IInv == Normal \/ Refusing
-----------------------------------------------------------------------------
(* What a byte does to the registers, once the parser is known to be in    *)
(* step: nothing before the payload, then one access of the register.      *)
Untouched == UNCHANGED <<sts, fifoVars>>

StsEffect ==
  /\ UNCHANGED fifoVars
  /\ IF txn.rd THEN sts' = sts /\ (pos = 4 => tx' = <<sts[0]>>)
               ELSE VALID \notin sts'[0] /\ sts'[0] \subseteq sts[0] \cup txn.vals[pos - 4]

FifoEffect ==
  /\ fifo_fill' = fifo_fill + 1 /\ UNCHANGED fifo_rsp_max
  /\ sts'[0] = IF AllRead(fifo_fill + 1) THEN sts[0] \ {AVAIL} ELSE sts[0]
  /\ IF txn.rd THEN /\ fifo' = fifo
                    /\ fifo_fill < BufSize => tx' = <<fifo[fifo_fill]>>
               ELSE fifo' = [fifo EXCEPT ![fifo_fill] = txn.vals[pos - 4]]

LEMMA IsrEffect ==
  ASSUME FrameInv, Transaction, Isr
  PROVE  /\ txn.rd \in BOOLEAN /\ txn.len \in 1..64 /\ pos \in 1..4 + txn.len
         /\ rxne /\ rxne' = FALSE /\ UNCHANGED <<mainVars, hostVars>>
         /\ Handled = pos - 1 /\ Handled' = pos
         /\ pos \in 1..3 => transfered_bytes' = 0
         /\ IF Accessed' = Accessed
            THEN Untouched /\ (txn.rd => pos \notin 4..3 + txn.len)
            ELSE /\ Accessed' = Accessed + 1
                 /\ Accessed' = (IF txn.rd THEN pos - 3 ELSE pos - 4) /\ Accessed' <= txn.len
                 /\ CASE txn.reg = "STS"  -> StsEffect
                      [] txn.reg = "FIFO" -> FifoEffect
                      [] OTHER            -> Untouched
<1> DEFINE byte == ByteAt(txn, pos)
           n    == txn.len
<1>1. /\ txn.rd \in BOOLEAN /\ n \in 1..64 /\ pos \in 1..4 + n
      /\ rxne /\ rxne' = FALSE /\ UNCHANGED <<mainVars, hostVars>>
      /\ Handled = pos - 1 /\ Handled' = pos
  BY IsrCases
<1>2. /\ Accessed = IF txn.rd THEN IF pos < 5 THEN 0 ELSE IF pos - 4 > n THEN n ELSE pos - 4
                    ELSE IF pos < 6 THEN 0 ELSE pos - 5
      /\ Accessed' = IF txn.rd THEN IF pos < 4 THEN 0 ELSE IF pos - 3 > n THEN n ELSE pos - 3
                     ELSE IF pos < 5 THEN 0 ELSE pos - 4
  BY <1>1 DEF Accessed, hostVars
<1>3. /\ sts \in [0..3 -> ByteValue] /\ tx = <<>>
  BY <1>1 DEF FrameInv, ReplyStaged, TypeOK, RegisterTypes
<1>4. \A v : Append(tx, v) = <<v>>
  BY <1>3
<1>5. pos \in 2..4 => transfered_bytes = 0
  BY <1>1 DEF Transaction
<1> HIDE DEF byte, n
<1>6. CASE pos = 1 /\ IsrHeader(byte)
  <2>1. transfered_bytes' = 0 /\ Untouched
    BY <1>6 DEF IsrHeader, Untouched
  <2>2. Accessed' = Accessed /\ pos \notin 4..3 + n
    BY <1>1, <1>2, <1>6
  <2> QED
    BY <1>1, <2>1, <2>2 DEF n
<1>7. CASE (pos \in 2..3 \/ (pos = 4 /\ ~txn.rd)) /\ IsrAddress(byte)
  <2>1. transfered_bytes' = 0 /\ Untouched
    BY <1>1, <1>5, <1>7 DEF IsrAddress, Untouched
  <2>2. Accessed' = Accessed /\ (txn.rd => pos \notin 4..3 + n)
    BY <1>1, <1>2, <1>7
  <2> QED
    BY <1>1, <2>1, <2>2 DEF n
<1>8. CASE pos = 4 + n /\ txn.rd /\ IsrTrailingByte(byte)
  <2>1. Untouched
    BY <1>8 DEF IsrTrailingByte, Untouched
  <2>2. Accessed' = Accessed /\ pos \notin 1..3 /\ pos \notin 4..3 + n
    BY <1>1, <1>2, <1>8
  <2> QED
    BY <1>1, <2>1, <2>2 DEF n
<1>9. CASE /\ pos > 4 - (IF txn.rd THEN 1 ELSE 0)
           /\ ~(pos = 4 + n /\ txn.rd)
           /\ IsrPayload(byte)
           /\ nbytes = (IF txn.rd THEN n - (pos - 4) ELSE n - (pos - 5))
           /\ isRead = txn.rd
           /\ addrbytes = (IF pos = 4 THEN 2 ELSE 3)
           /\ address = AddressAfter(txn.reg, addrbytes)
  <2> DEFINE r == RegisterAt(address')
             last == Left(nbytes) = 0
             i == IF last THEN 0 ELSE transfered_bytes
  <2>1. /\ Accessed' # Accessed /\ Accessed' = Accessed + 1 /\ pos \notin 1..3
        /\ Accessed' = (IF txn.rd THEN pos - 3 ELSE pos - 4) /\ Accessed' <= n
        /\ pos = 4 => txn.rd
    BY <1>1, <1>2, <1>9
  <2>2. r = txn.reg
    <3>1. pos = 4 => byte = AddressByte(txn.reg, 3)
      BY DEF byte, ByteAt
    <3>2. address' = AddressAfter(txn.reg, 3)
      BY <1>9, <3>1, AddressShifts DEF IsrPayload
    <3> QED
      BY <3>2, RegisterFound, TxnTypes DEF FrameInv
  <2>3. i \in Nat /\ (pos = 4 => i = 0)
    BY <1>5, <1>9 DEF FrameInv, TypeOK, FrameTypes
  <2>4. ~txn.rd => byte = txn.vals[pos - 4]
    BY <1>1, <2>1 DEF byte, ByteAt
  <2>5. CASE r = "STS"
    <3>1. AccessSts(byte, i)
      BY <1>9, <2>5 DEF IsrPayload
    <3> HIDE DEF i
    <3>2. ASSUME txn.rd PROVE StsEffect
      <4>1. Push(IF i \in 0..3 THEN sts[i] ELSE Zero) /\ sts' = sts /\ UNCHANGED fifoVars
        BY <1>9, <3>1, <3>2 DEF AccessSts
      <4>2. pos = 4 => tx' = <<sts[0]>>
        BY <1>4, <2>3, <4>1 DEF Push
      <4> QED
        BY <3>2, <4>1, <4>2 DEF StsEffect
    <3>3. ASSUME ~txn.rd PROVE StsEffect
      <4>1. /\ sts' = [[sts EXCEPT ![i] = byte] EXCEPT ![0] = @ \ {VALID}]
            /\ UNCHANGED fifoVars
        BY <1>9, <3>1, <3>3 DEF AccessSts
      <4>2. VALID \notin sts'[0] /\ sts'[0] \subseteq sts[0] \cup byte
        BY <1>3, <2>3, <4>1
      <4> QED
        BY <2>4, <3>3, <4>1, <4>2 DEF StsEffect
    <3>4. StsEffect
      BY <3>2, <3>3
    <3> QED
      BY <1>1, <2>1, <2>2, <2>5, <3>4 DEF n
  <2>6. CASE r = "FIFO"
    <3>1. AccessFifo(byte)
      BY <1>9, <2>6 DEF IsrPayload
    <3>2. sts'[0] = IF AllRead(fifo_fill + 1) THEN sts[0] \ {AVAIL} ELSE sts[0]
      BY <1>3, <3>1 DEF AccessFifo
    <3>3. fifo_fill' = fifo_fill + 1 /\ UNCHANGED fifo_rsp_max
      BY <3>1 DEF AccessFifo
    <3>4. ASSUME txn.rd PROVE FifoEffect
      <4>1. Push(IF fifo_fill < BufSize THEN fifo[fifo_fill] ELSE Zero) /\ fifo' = fifo
        BY <1>9, <3>1, <3>4 DEF AccessFifo
      <4>2. fifo_fill < BufSize => tx' = <<fifo[fifo_fill]>>
        BY <1>4, <4>1 DEF Push
      <4> QED
        BY <3>2, <3>3, <3>4, <4>1, <4>2 DEF FifoEffect
    <3>5. ASSUME ~txn.rd PROVE FifoEffect
      <4>1. fifo' = [fifo EXCEPT ![fifo_fill] = byte]
        BY <1>9, <3>1, <3>5 DEF AccessFifo
      <4> QED
        BY <2>4, <3>2, <3>3, <3>5, <4>1 DEF FifoEffect
    <3>6. FifoEffect
      BY <3>4, <3>5
    <3> QED
      BY <1>1, <2>1, <2>2, <2>6, <3>6 DEF n
  <2>7. CASE r \notin {"STS", "FIFO"}
    <3>1. Untouched
      BY <1>9, <2>7 DEF IsrPayload, Untouched
    <3> QED
      BY <1>1, <2>1, <2>2, <2>7, <3>1 DEF n
  <2> QED
    BY <2>5, <2>6, <2>7
<1> QED
  BY <1>6, <1>7, <1>8, <1>9, IsrCases DEF byte, n
-----------------------------------------------------------------------------
(* The transaction of each phase, field by field.                          *)
LEMMA PhaseShape ==
  ASSUME TypeOK, phase \notin {"probe", "off"} => txn = TxnOf(phase, k, off)
  PROVE  /\ phase = "ready" =>
              /\ txn.rd = FALSE /\ txn.reg = "STS"
              /\ \A i \in 1..txn.len : txn.vals[i] \subseteq {READY}
         /\ phase \in {"check", "poll"} => txn.rd = TRUE /\ txn.reg = "STS"
         /\ phase = "load" =>
              /\ txn.rd = FALSE /\ txn.reg = "FIFO" /\ off + txn.len <= CmdLen
              /\ \A i \in 1..txn.len : txn.vals[i] = CmdByte(k, off + i - 1)
         /\ phase \in {"go", "again"} =>
              /\ txn.rd = FALSE /\ txn.reg = "STS"
              /\ \A i \in 1..txn.len : txn.vals[i] \subseteq {GO}
         /\ phase = "fetch" => txn.rd = TRUE /\ txn.reg = "FIFO" /\ off + txn.len <= RspLen
<1>1. StsWrite \in 1..4 /\ StsRead \in 1..4 /\ CmdLen \in Nat /\ RspLen \in Nat /\ Chunk \in 1..64
  BY HostAssumption, SizeAssumption
<1>2. ASSUME NEW bits \in ByteValue
      PROVE  LET t == StatusWrite(bits)
             IN /\ t.rd = FALSE /\ t.reg = "STS"
                /\ t.len = StsWrite /\ \A i \in 1..t.len : t.vals[i] \subseteq bits
  <2> DEFINE f == [i \in 1..StsWrite |-> IF i = 1 THEN bits ELSE Zero]
  <2>1. Len(f) = StsWrite /\ \A i \in 1..StsWrite : f[i] \subseteq bits
    BY <1>1 DEF Zero
  <2> QED
    BY <2>1 DEF StatusWrite, Write
<1>3. CASE phase = "ready"
  <2>1. txn = StatusWrite({READY})
    BY <1>3 DEF TxnOf
  <2> QED
    BY <1>2, <1>3, <2>1, BitTypes
<1>4. CASE phase \in {"check", "poll"}
  <2>1. txn = Read("STS", StsRead)
    BY <1>4 DEF TxnOf
  <2> QED
    BY <1>4, <2>1 DEF Read
<1>5. CASE phase = "load"
  <2> DEFINE n == PieceLen(CmdLen, off)
             f == [i \in 1..n |-> CmdByte(k, off + i - 1)]
  <2>1. txn = Write("FIFO", f)
    BY <1>5 DEF TxnOf
  <2>2. n \in 1..64 /\ off + n <= CmdLen
    BY <1>1, <1>5, PieceLenType DEF TypeOK, HostTypes, PieceLen
  <2> HIDE DEF n
  <2>3. Len(f) = n
    BY <2>2
  <2> QED
    BY <1>5, <2>1, <2>2, <2>3 DEF Write
<1>6. CASE phase \in {"go", "again"}
  <2>1. txn = StatusWrite({GO})
    BY <1>6 DEF TxnOf
  <2>2. {GO} \in ByteValue
    BY DEF GO, ByteValue
  <2> QED
    BY <1>2, <1>6, <2>1, <2>2
<1>7. CASE phase = "fetch"
  <2>1. txn = Read("FIFO", PieceLen(RspLen, off))
    BY <1>7 DEF TxnOf
  <2>2. off + PieceLen(RspLen, off) <= RspLen
    BY <1>1, <1>7 DEF TypeOK, HostTypes, PieceLen
  <2> QED
    BY <1>7, <2>1, <2>2 DEF Read
<1> QED
  BY <1>3, <1>4, <1>5, <1>6, <1>7

LEMMA TxnShape ==
  ASSUME TypeOK, Transaction
  PROVE  /\ phase = "ready" =>
              /\ txn.rd = FALSE /\ txn.reg = "STS"
              /\ \A i \in 1..txn.len : txn.vals[i] \subseteq {READY}
         /\ phase \in {"check", "poll"} => txn.rd = TRUE /\ txn.reg = "STS"
         /\ phase = "load" =>
              /\ txn.rd = FALSE /\ txn.reg = "FIFO" /\ off + txn.len <= CmdLen
              /\ \A i \in 1..txn.len : txn.vals[i] = CmdByte(k, off + i - 1)
         /\ phase \in {"go", "again"} =>
              /\ txn.rd = FALSE /\ txn.reg = "STS"
              /\ \A i \in 1..txn.len : txn.vals[i] \subseteq {GO}
         /\ phase = "fetch" => txn.rd = TRUE /\ txn.reg = "FIFO" /\ off + txn.len <= RspLen
BY PhaseShape DEF Transaction

-----------------------------------------------------------------------------
(* The handler.                                                            *)

(* What it leaves alone: main, the host, where each of them is.            *)
LEMMA IsrKeeps ==
  ASSUME Normal, Isr
  PROVE  /\ FrameInv' /\ Locals' /\ Transaction'
         /\ (Idle' <=> Idle) /\ (Taking' <=> Taking) /\ (Staging' <=> Staging)
         /\ (Offering' <=> Offering) /\ (Closing' <=> Closing) /\ (Ending' <=> Ending)
         /\ phase # "off"
         /\ answers' = Upto(IF phase' = "off" THEN k' ELSE k' - 1)
         /\ \A j \in 1..k' - 1 : j \notin Oversized
<1>1. UNCHANGED <<mainVars, hostVars>> /\ rxne
  BY DEF Isr
<1>2. FrameInv'
  <2>1. TypeOK' /\ InFrame' /\ ReplyStaged'
    BY IsrType, IsrFrame DEF Normal, FrameInv
  <2>2. NoReinit'
    BY <1>1 DEF Normal, FrameInv, NoReinit, mainVars
  <2> QED
    BY <2>1, <2>2 DEF FrameInv
<1>3. Locals'
  BY <1>1 DEF Normal, Locals, Fixing, mainVars
<1>4. phase # "off"
  BY <1>1 DEF Normal, Transaction, Complete
<1>5. Transaction'
  <2>1. Handled' = pos /\ (pos \in 1..3 => transfered_bytes' = 0)
    BY IsrEffect DEF Normal
  <2> QED
    BY <1>1, <1>4, <2>1 DEF Normal, Transaction, hostVars, TxnOf
<1>6. /\ (Idle' <=> Idle) /\ (Taking' <=> Taking) /\ (Staging' <=> Staging)
      /\ (Offering' <=> Offering) /\ (Closing' <=> Closing) /\ (Ending' <=> Ending)
  BY <1>1 DEF mainVars, Idle, Fixing, Taking, Staging, Offering, Closing, Ending
<1> QED
  BY <1>1, <1>2, <1>3, <1>4, <1>5, <1>6 DEF Normal, hostVars

(* A step that moves neither main, nor the registers, nor the host within  *)
(* its exchange, keeps what holds in that stage.                           *)
LEMMA StagesKept ==
  ASSUME Stages, UNCHANGED <<sts, fifoVars, mainVars, phase, k, off>>, Accessed' = Accessed
  PROVE  Stages'
<1>1. UNCHANGED <<sts, fifo, fifo_fill, fifo_rsp_max, pc, value, reg, idx, call, executed>>
  BY DEF fifoVars, mainVars
<1>2. /\ (Idle' <=> Idle) /\ (Taking' <=> Taking) /\ (Staging' <=> Staging)
      /\ (Offering' <=> Offering) /\ (Closing' <=> Closing) /\ (Ending' <=> Ending)
  BY <1>1 DEF Idle, Fixing, Taking, Staging, Offering, Closing, Ending
<1>3. /\ (Unasked' <=> Unasked) /\ (Asked' <=> Asked)
      /\ (Reading' <=> Reading) /\ (Fetched' <=> Fetched)
  BY DEF Unasked, Asked, Reading, Fetched
<1>4. AtRest' <=> AtRest
  BY <1>1, <1>2 DEF AtRest, Clear
<1>5. UnaskedInv' <=> UnaskedInv
  BY <1>1, <1>2, <1>4 DEF UnaskedInv, HasCommand
<1>6. AskedInv' <=> AskedInv
  BY <1>1, <1>2 DEF AskedInv, HasCommand, HasResponse, Clear
<1>7. ReadingInv' <=> ReadingInv
  BY <1>1, <1>2 DEF ReadingInv, HasResponse
<1>8. FetchedInv' <=> FetchedInv
  BY <1>1, <1>2, <1>4 DEF FetchedInv
<1> QED
  BY <1>3, <1>5, <1>6, <1>7, <1>8 DEF Stages

(* The phases in which the payload byte is not for a register of the       *)
(* exchange, and the bytes before the payload.                             *)
LEMMA IsrQuietStages ==
  ASSUME Normal, Isr, Accessed' = Accessed \/ phase = "probe" \/ phase \in {"check", "poll"}
  PROVE  Stages'
<1>1. TypeOK /\ Transaction /\ Stages /\ FrameInv
  BY DEF Normal, FrameInv
<1>2. UNCHANGED <<mainVars, phase, k, off>>
  BY <1>1, IsrEffect DEF hostVars
<1>3. CASE Accessed' = Accessed
  <2>1. UNCHANGED <<sts, fifoVars>>
    BY <1>1, <1>3, IsrEffect DEF Untouched
  <2> QED
    BY <1>1, <1>2, <1>3, <2>1, StagesKept
<1>4. CASE phase \in {"probe", "check", "poll"} /\ Accessed' # Accessed
  <2>1. txn.reg \notin {"STS", "FIFO"} \/ (txn.reg = "STS" /\ txn.rd)
    BY <1>1, <1>4, TxnShape DEF Transaction
  <2>2. UNCHANGED <<sts, fifo, fifo_fill, fifo_rsp_max>>
    BY <1>1, <1>4, <2>1, IsrEffect DEF Untouched, StsEffect, fifoVars
  <2>3. UNCHANGED <<pc, value, reg, idx, call, executed>>
    BY <1>2 DEF mainVars
  <2>4. /\ (Idle' <=> Idle) /\ (Taking' <=> Taking) /\ (Staging' <=> Staging)
        /\ (Offering' <=> Offering) /\ (Closing' <=> Closing) /\ (Ending' <=> Ending)
    BY <2>3 DEF Idle, Fixing, Taking, Staging, Offering, Closing, Ending
  <2>5. CASE phase \in {"probe", "check"}
    <3>1. UnaskedInv
      BY <1>1, <2>5 DEF Stages, Unasked
    <3>2. UnaskedInv'
      BY <1>2, <2>2, <2>3, <2>4, <2>5, <3>1 DEF UnaskedInv, AtRest, Clear
    <3> QED
      BY <1>2, <2>5, <3>2 DEF Stages, Unasked, Asked, Reading, Fetched
  <2>6. CASE phase = "poll"
    <3>1. AskedInv
      BY <1>1, <2>6 DEF Stages, Asked
    <3>2. AskedInv'
      BY <1>2, <2>2, <2>3, <2>4, <3>1 DEF AskedInv, Clear, HasCommand, HasResponse
    <3> QED
      BY <1>2, <2>6, <3>2 DEF Stages, Unasked, Asked, Reading, Fetched
  <2> QED
    BY <1>4, <2>5, <2>6
<1> QED
  BY <1>3, <1>4

(* The host writes commandReady, or one more of tpmGo's bytes.             *)
LEMMA IsrStatusStages ==
  ASSUME Normal, Isr, Accessed' # Accessed, phase \in {"ready", "go", "again"}
  PROVE  Stages'
<1>1. TypeOK /\ Transaction /\ Stages /\ FrameInv
  BY DEF Normal, FrameInv
<1>2. UNCHANGED <<pc, value, reg, idx, call, executed, phase, k, off>>
  BY <1>1, IsrEffect DEF hostVars, mainVars
<1>3. /\ (Idle' <=> Idle) /\ (Taking' <=> Taking) /\ (Staging' <=> Staging)
      /\ (Offering' <=> Offering) /\ (Closing' <=> Closing) /\ (Ending' <=> Ending)
  BY <1>2 DEF Idle, Fixing, Taking, Staging, Offering, Closing, Ending
<1>4. /\ txn.rd = FALSE /\ txn.reg = "STS" /\ txn.len \in 1..64 /\ pos \in Nat
      /\ Accessed' = pos - 4 /\ Accessed' = Accessed + 1 /\ Accessed' <= txn.len
      /\ Accessed \in Nat /\ StsEffect
  <2>1. txn.rd = FALSE /\ txn.reg = "STS"
    BY <1>1, TxnShape
  <2>2. txn.len \in 1..64 /\ Accessed \in Nat /\ pos \in Nat
    BY <1>1, TxnTypes
  <2> QED
    BY <1>1, <2>1, <2>2, IsrEffect
<1>5. UNCHANGED <<fifo, fifo_fill, fifo_rsp_max>> /\ VALID \notin sts'[0]
  BY <1>4 DEF StsEffect, fifoVars
<1>6. AVAIL \notin sts[0] => AVAIL \notin sts'[0]
  <2>1. pos - 4 \in 1..txn.len
    BY <1>4
  <2>2. txn.vals[pos - 4] \subseteq {READY} \/ txn.vals[pos - 4] \subseteq {GO}
    BY <1>1, <2>1, TxnShape
  <2>3. AVAIL \notin txn.vals[pos - 4]
    BY <2>2 DEF AVAIL, READY, GO
  <2> QED
    BY <1>4, <2>3 DEF StsEffect
<1>7. phase = "ready" /\ GO \notin sts[0] => GO \notin sts'[0]
  <2> SUFFICES ASSUME phase = "ready" PROVE GO \notin txn.vals[pos - 4]
    BY <1>4 DEF StsEffect
  <2>1. pos - 4 \in 1..txn.len
    BY <1>4
  <2> QED
    BY <1>1, <2>1, TxnShape DEF READY, GO
<1>8. CASE phase = "ready"
  <2>1. UnaskedInv
    BY <1>1, <1>8 DEF Stages, Unasked
  <2>2. AtRest'
    BY <1>2, <1>3, <1>5, <1>6, <1>7, <1>8, <2>1 DEF UnaskedInv, AtRest, Clear
  <2>3. UnaskedInv'
    BY <1>2, <1>3, <1>5, <1>8, <2>1, <2>2 DEF UnaskedInv
  <2> QED
    BY <1>2, <1>8, <2>3 DEF Stages, Unasked, Asked, Reading, Fetched
<1>9. CASE phase = "go" /\ Accessed = 0
  <2>1. UnaskedInv
    BY <1>1, <1>9 DEF Stages, Unasked
  <2>2. Idle /\ Clear(AVAIL) /\ k \notin Oversized /\ HasCommand /\ executed = Upto(k - 1)
    BY <1>9, <2>1 DEF UnaskedInv, AtRest
  <2>3. Clear(AVAIL)' /\ HasCommand'
    BY <1>2, <1>5, <1>6, <2>2 DEF Clear, HasCommand
  <2>4. AskedInv'
    BY <1>2, <1>3, <2>2, <2>3 DEF AskedInv
  <2> QED
    BY <1>2, <1>4, <1>9, <2>4 DEF Stages, Unasked, Asked, Reading, Fetched
<1>10. CASE phase = "again" \/ (phase = "go" /\ Accessed > 0)
  <2>1. AskedInv
    BY <1>1, <1>10 DEF Stages, Asked
  <2>2. Clear(AVAIL) => Clear(AVAIL)'
    BY <1>2, <1>6 DEF Clear
  <2>3. (HasCommand => HasCommand') /\ (HasResponse => HasResponse')
    BY <1>2, <1>5 DEF HasCommand, HasResponse
  <2>4. AskedInv'
    BY <1>2, <1>3, <1>5, <2>1, <2>2, <2>3 DEF AskedInv
  <2> QED
    BY <1>2, <1>4, <1>10, <2>4 DEF Stages, Unasked, Asked, Reading, Fetched
<1> QED
  BY <1>4, <1>8, <1>9, <1>10

(* A byte of the command goes to the place in the buffer it belongs to.    *)
LEMMA IsrLoadStages ==
  ASSUME Normal, Isr, Accessed' # Accessed, phase = "load"
  PROVE  Stages'
<1>1. TypeOK /\ Transaction /\ Stages /\ FrameInv
  BY DEF Normal, FrameInv
<1>2. UNCHANGED <<pc, value, reg, idx, call, executed, phase, k, off>>
  BY <1>1, IsrEffect DEF hostVars, mainVars
<1>3. /\ (Idle' <=> Idle) /\ (Offering' <=> Offering)
      /\ (Closing' <=> Closing) /\ (Ending' <=> Ending)
  BY <1>2 DEF Idle, Fixing, Taking, Staging, Offering, Closing, Ending
<1>4. /\ txn.rd = FALSE /\ txn.reg = "FIFO" /\ off \in Nat /\ pos \in Nat
      /\ txn.len \in Nat /\ Accessed' = pos - 4 /\ Accessed' = Accessed + 1 /\ Accessed' <= txn.len
      /\ Accessed \in Nat /\ FifoEffect /\ off + txn.len <= CmdLen
      /\ txn.vals[pos - 4] = CmdByte(k, off + Accessed)
  <2>1. /\ txn.rd = FALSE /\ txn.reg = "FIFO" /\ off + txn.len <= CmdLen
        /\ \A i \in 1..txn.len : txn.vals[i] = CmdByte(k, off + i - 1)
    BY <1>1, TxnShape
  <2>2. txn.len \in 1..64 /\ Accessed \in Nat /\ pos \in Nat /\ off \in Nat
    BY <1>1, TxnTypes DEF TypeOK, HostTypes
  <2>3. /\ Accessed' = pos - 4 /\ Accessed' = Accessed + 1 /\ Accessed' <= txn.len
        /\ FifoEffect
    BY <1>1, <2>1, IsrEffect
  <2>4. pos - 4 \in 1..txn.len /\ off + (pos - 4) - 1 = off + Accessed
    BY <2>2, <2>3
  <2> QED
    BY <2>1, <2>2, <2>3, <2>4
<1>5. UnaskedInv /\ Idle
  <2>1. UnaskedInv
    BY <1>1 DEF Stages, Unasked
  <2>2. Idle
    BY <2>1 DEF UnaskedInv
  <2> QED
    BY <2>1, <2>2
<1>6. fifo_fill = off + Accessed /\ fifo_fill' = off + Accessed' /\ off + Accessed < BufSize
  <2>1. fifo_fill = off + Accessed
    BY <1>5 DEF UnaskedInv
  <2>2. fifo_fill' = fifo_fill + 1
    BY <1>4 DEF FifoEffect
  <2> QED
    BY <1>4, <2>1, <2>2, SizeAssumption
<1>7. \A i \in 0..off + Accessed' - 1 : fifo'[i] = CmdByte(k, i)
  <2>1. fifo \in [0..BufSize - 1 -> ByteValue] /\ fifo' = [fifo EXCEPT ![off + Accessed] = CmdByte(k, off + Accessed)]
    BY <1>1, <1>4, <1>6 DEF TypeOK, RegisterTypes, FifoEffect
  <2>2. \A i \in 0..off + Accessed - 1 : fifo[i] = CmdByte(k, i)
    BY <1>5 DEF UnaskedInv
  <2>3. BufSize \in Nat
    BY SizeAssumption
  <2> SUFFICES ASSUME NEW i \in 0..off + Accessed' - 1 PROVE fifo'[i] = CmdByte(k, i)
    OBVIOUS
  <2>4. i \in 0..off + Accessed /\ i \in 0..BufSize - 1
    BY <1>4, <1>6, <2>3
  <2>5. CASE i = off + Accessed
    BY <2>1, <2>4, <2>5
  <2>6. CASE i # off + Accessed
    BY <1>4, <2>1, <2>2, <2>4, <2>6
  <2> QED
    BY <2>5, <2>6
<1>8. Clear(AVAIL)' /\ Clear(GO)'
  <2>1. Clear(AVAIL) /\ Clear(GO)
    BY <1>5 DEF UnaskedInv, AtRest
  <2>2. sts'[0] \subseteq sts[0]
    BY <1>4 DEF FifoEffect
  <2> QED
    BY <1>2, <2>1, <2>2 DEF Clear
<1>9. AtRest'
  <2>1. ~Offering /\ ~Closing
    BY <1>5 DEF Idle, Fixing, Offering, Closing
  <2> QED
    BY <1>3, <1>5, <1>8, <2>1 DEF AtRest
<1>10. UnaskedInv'
  BY <1>2, <1>3, <1>5, <1>6, <1>7, <1>9 DEF UnaskedInv
<1> QED
  BY <1>2, <1>10 DEF Stages, Unasked, Asked, Reading, Fetched

(* A byte of the response is staged; dataAvail drops with the last one.    *)
LEMMA IsrFetchStages ==
  ASSUME Normal, Isr, Accessed' # Accessed, phase = "fetch"
  PROVE  Stages' /\ tx' = <<RspByte(k, off + pos - 4)>>
<1>1. TypeOK /\ Transaction /\ Stages /\ FrameInv
  BY DEF Normal, FrameInv
<1>2. UNCHANGED <<pc, value, reg, idx, call, executed, phase, k, off>>
  BY <1>1, IsrEffect DEF hostVars, mainVars
<1>3. /\ (Idle' <=> Idle) /\ (Offering' <=> Offering)
      /\ (Closing' <=> Closing) /\ (Ending' <=> Ending)
  BY <1>2 DEF Idle, Fixing, Taking, Staging, Offering, Closing, Ending
<1>4. /\ txn.rd = TRUE /\ off \in Nat /\ pos \in Nat
      /\ Accessed' = pos - 3 /\ Accessed' = Accessed + 1 /\ Accessed' <= txn.len
      /\ Accessed \in Nat /\ FifoEffect /\ off + txn.len <= RspLen
      /\ txn.len \in Nat /\ RspLen \in Nat /\ RspLen > 0
  <2>1. txn.rd = TRUE /\ txn.reg = "FIFO" /\ off + txn.len <= RspLen
    BY <1>1, TxnShape
  <2>2. txn.len \in 1..64 /\ Accessed \in Nat /\ pos \in Nat /\ off \in Nat
    BY <1>1, TxnTypes DEF TypeOK, HostTypes
  <2>3. /\ Accessed' = pos - 3 /\ Accessed' = Accessed + 1 /\ Accessed' <= txn.len
        /\ FifoEffect
    BY <1>1, <2>1, IsrEffect
  <2> QED
    BY <2>1, <2>2, <2>3, SizeAssumption
<1>5. Reading /\ ReadingInv
  BY <1>1, <1>4 DEF Stages, Reading
<1>6. /\ fifo_fill = off + Accessed /\ fifo_fill < RspLen
      /\ fifo_fill' = off + Accessed' /\ UNCHANGED <<fifo, fifo_rsp_max>>
  BY <1>4, <1>5 DEF Reading, ReadingInv, FifoEffect
<1>7. tx' = <<RspByte(k, off + pos - 4)>>
  <2>1. fifo_fill < BufSize /\ fifo_fill \in 0..RspLen - 1 /\ fifo_fill = off + pos - 4
    BY <1>4, <1>6, SizeAssumption
  <2>2. fifo[fifo_fill] = RspByte(k, fifo_fill)
    BY <1>5, <2>1 DEF ReadingInv, HasResponse
  <2> QED
    BY <1>4, <2>1, <2>2 DEF FifoEffect
<1>8. HasResponse'
  BY <1>2, <1>5, <1>6 DEF ReadingInv, HasResponse
<1>9. AllRead(fifo_fill + 1) <=> off + Accessed' >= RspLen
  BY <1>4, <1>5, <1>6 DEF AllRead, ReadingInv
<1>10. CASE off + Accessed' < RspLen
  <2>1. AVAIL \in sts'[0]
    BY <1>4, <1>5, <1>9, <1>10 DEF ReadingInv, FifoEffect
  <2>2. ReadingInv'
    BY <1>2, <1>3, <1>5, <1>6, <1>8, <2>1 DEF ReadingInv
  <2> QED
    BY <1>2, <1>4, <1>7, <1>10, <2>2 DEF Stages, Unasked, Asked, Reading, Fetched
<1>11. CASE off + Accessed' = RspLen
  <2>1. ~Idle /\ ~Closing
    BY <1>5 DEF ReadingInv, Idle, Fixing, Offering, Closing
  <2>2. FetchedInv'
    BY <1>2, <1>3, <1>5, <1>6, <1>11, <2>1 DEF ReadingInv, FetchedInv, AtRest
  <2> QED
    BY <1>2, <1>4, <1>7, <1>11, <2>2 DEF Stages, Unasked, Asked, Reading, Fetched
<1> QED
  BY <1>4, <1>10, <1>11

(* The byte staged for the host: the status as it is now.                  *)
LEMMA IsrReplies ==
  ASSUME Normal, Isr
  PROVE  Replies'
<1>1. TypeOK /\ Transaction /\ Stages /\ FrameInv /\ Replies
  BY DEF Normal, FrameInv
<1>2. UNCHANGED <<phase, k, off, txn, pos, reply>> /\ rxne /\ pos \in Nat /\ txn.len \in 1..64
  BY <1>1, IsrEffect DEF hostVars
<1>3. (Idle' <=> Idle) /\ (Offering' <=> Offering)
  BY IsrKeeps
<1>4. CASE phase \in {"check", "poll"}
  <2>1. txn.rd = TRUE /\ txn.reg = "STS"
    BY <1>1, <1>4, TxnShape
  <2>2. UNCHANGED <<sts>>
    BY <1>1, <2>1, IsrEffect DEF Untouched, StsEffect
  <2>3. pos = 4 => Head(tx') = sts[0]
    BY <1>1, <1>2, <2>1, IsrEffect DEF StsEffect
  <2>4. phase = "check" => ReadyHolds(sts[0])
    <3>1. phase = "check" => UnaskedInv
      BY <1>1 DEF Stages, Unasked
    <3> QED
      BY <3>1 DEF UnaskedInv, ReadyHolds, SaysReady
  <2>5. phase = "poll" => AvailHolds(sts[0])
    <3>1. phase = "poll" => AskedInv
      BY <1>1 DEF Stages, Asked
    <3> QED
      BY <3>1 DEF AskedInv, AvailHolds, Clear
  <2> QED
    BY <1>1, <1>2, <1>3, <1>4, <2>2, <2>3, <2>4, <2>5 DEF Replies, ReadyHolds, AvailHolds
<1>5. CASE phase = "fetch"
  <2>1. txn.rd = TRUE
    BY <1>1, <1>5, TxnShape
  <2>2. pos \in 4..3 + txn.len => Accessed' # Accessed
    BY <1>1, <2>1, IsrEffect
  <2>3. pos \in 4..3 + txn.len => tx' = <<RspByte(k, off + pos - 4)>>
    BY <1>5, <2>2, IsrFetchStages
  <2>4. Received' = Received
    BY <1>2 DEF Received
  <2> QED
    BY <1>1, <1>2, <1>5, <2>3, <2>4 DEF Replies
<1> QED
  BY <1>2, <1>4, <1>5 DEF Replies

LEMMA IsrNormal ==
  ASSUME Normal, Isr
  PROVE  Normal'
<1>1. Stages'
  <2>1. phase \in Phases /\ phase # "off"
    BY IsrKeeps DEF Normal, FrameInv, TypeOK, HostTypes
  <2>2. CASE Accessed' = Accessed \/ phase \in {"probe", "check", "poll"}
    BY <2>2, IsrQuietStages
  <2>3. CASE Accessed' # Accessed /\ phase \in {"ready", "go", "again"}
    BY <2>3, IsrStatusStages
  <2>4. CASE Accessed' # Accessed /\ phase = "load"
    BY <2>4, IsrLoadStages
  <2>5. CASE Accessed' # Accessed /\ phase = "fetch"
    BY <2>5, IsrFetchStages
  <2> QED
    BY <2>1, <2>2, <2>3, <2>4, <2>5 DEF Phases
<1> QED
  BY <1>1, IsrKeeps, IsrReplies DEF Normal
-----------------------------------------------------------------------------
(* main.                                                                   *)

(* The bits of the first status byte that fixSTS loads and stores.         *)
LEMMA FixBits ==
  ASSUME TypeOK, Locals, NEW b \in {GO, AVAIL}
  PROVE  /\ FixLoad =>
              /\ b \in reg \cup {8 * idx + c : c \in sts[idx] \cap 0..7} <=>
                   b \in reg \/ (idx = 0 /\ b \in sts[0])
              /\ idx < 3 => reg' = reg \cup {8 * idx + c : c \in sts[idx] \cap 0..7}
              /\ idx = 3 => value' = ((value \cup reg \cup {8 * idx + c : c \in sts[idx] \cap 0..7}
                                        \cup call.set) \ call.unset) \cup {VALID}
         /\ FixStore =>
              sts'[0] = IF idx = 0 THEN {c \in 0..7 : c \in value \cup {VALID}} ELSE sts[0]
<1>1. b \in 4..5 /\ idx \in 0..3 /\ sts \in [0..3 -> ByteValue] /\ reg \in ByteValue
  BY DEF GO, AVAIL, TypeOK, MainTypes, RegisterTypes
<1>2. ASSUME FixLoad
      PROVE  b \in reg \cup {8 * idx + c : c \in sts[idx] \cap 0..7} <=>
               b \in reg \/ (idx = 0 /\ b \in sts[0])
  BY <1>1
<1>3. ASSUME FixLoad
      PROVE  /\ idx < 3 => reg' = reg \cup {8 * idx + c : c \in sts[idx] \cap 0..7}
             /\ idx = 3 => value' = ((value \cup reg \cup {8 * idx + c : c \in sts[idx] \cap 0..7}
                                       \cup call.set) \ call.unset) \cup {VALID}
  <2> DEFINE new == {8 * idx + c : c \in sts[idx] \cap 0..7}
  <2>1. /\ idx < 3 => reg' = reg \cup new
        /\ idx = 3 => value' = Remembered(reg \cup new)
    BY <1>1, <1>3 DEF FixLoad
  <2> HIDE DEF new
  <2>2. Remembered(reg \cup new) = ((value \cup reg \cup new \cup call.set) \ call.unset) \cup {VALID}
    BY DEF Remembered
  <2> QED
    BY <2>1, <2>2 DEF new
<1>4. ASSUME FixStore
      PROVE  sts'[0] = IF idx = 0 THEN {c \in 0..7 : c \in value \cup {VALID}} ELSE sts[0]
  <2>1. sts' = [sts EXCEPT ![idx] = {c \in 0..7 : 8 * idx + c \in value \cup {VALID}}]
    BY <1>4 DEF FixStore
  <2>2. CASE idx = 0
    <3>1. sts'[0] = {c \in 0..7 : 8 * 0 + c \in value \cup {VALID}}
      BY <1>1, <2>1, <2>2
    <3> QED
      BY <2>2, <3>1
  <2>3. CASE idx # 0
    BY <1>1, <2>1, <2>3
  <2> QED
    BY <2>2, <2>3
<1> QED
  BY <1>2, <1>3, <1>4

(* A step of main in its polling loop: it leaves the loop only for tpmGo,  *)
(* and it invents neither tpmGo nor dataAvail.                             *)
LEMMA IdleStep ==
  ASSUME TypeOK, Locals, Idle, MainStep
  PROVE  /\ UNCHANGED <<fifo, fifo_fill, fifo_rsp_max, executed>>
         /\ Idle' \/ (pc' = "ReadSize" /\ GO \in sts[0])
         /\ \A b \in {GO, AVAIL} : Clear(b) => Clear(b)'
         /\ Locals'
<1>1. FixLoad \/ FixStore \/ ChkValid \/ ChkGo
  BY DEF Idle, Fixing, MainStep, ReadSize, Execute, ResetFill, SetMax, LoadGo, ClearGo,
     RspLoop, EndFill, EndMax, EndXfer
<1>2. UNCHANGED <<fifo, fifo_fill, fifo_rsp_max, executed>>
  BY <1>1 DEF FixLoad, FixStore, ChkValid, ChkGo, fifoVars
<1>3. idx \in 0..3 /\ VALID # GO /\ VALID # AVAIL /\ GO # AVAIL
  BY DEF TypeOK, MainTypes, VALID, GO, AVAIL
<1>4. CASE FixLoad
  <2>1. pc = "FixLoad" /\ call.ret = "ChkGo" /\ UNCHANGED <<sts, call>>
    BY <1>4 DEF FixLoad, Idle, Fixing
  <2> DEFINE new == {8 * idx + c : c \in sts[idx] \cap 0..7}
  <2>2. CASE idx < 3
    <3>1. /\ idx' = idx + 1 /\ UNCHANGED <<pc, value>>
          /\ reg' = reg \cup new
      BY <1>4, <2>2 DEF FixLoad
    <3>2. \A b \in {GO, AVAIL} : b \in reg \cup new <=> b \in reg \/ (idx = 0 /\ b \in sts[0])
      BY <1>4, FixBits
    <3> HIDE DEF new
    <3>3. \A b \in {GO, AVAIL} : Clear(b) => Clear(b)'
      BY <2>1, <3>1, <3>2 DEF Clear
    <3>4. Locals'
      BY <1>3, <2>1, <3>1 DEF Locals, Fixing
    <3> QED
      BY <1>2, <2>1, <3>1, <3>3, <3>4 DEF Idle, Fixing
  <2>3. CASE idx = 3
    <3>1. /\ idx' = 0 /\ reg' = {} /\ pc' = "FixStore"
          /\ value' = ((value \cup reg \cup new \cup call.set) \ call.unset) \cup {VALID}
      BY <1>4, <2>3, FixBits DEF FixLoad, Goto
    <3>2. \A b \in {GO, AVAIL} : b \in reg \cup new <=> b \in reg
      BY <1>4, <2>3, FixBits
    <3>3. GO \notin call.set /\ AVAIL \notin call.set
      BY <2>1 DEF Locals, Fixing
    <3> HIDE DEF new
    <3>4. \A b \in {GO, AVAIL} : Clear(b) => Clear(b)'
      BY <1>3, <2>1, <3>1, <3>2, <3>3 DEF Clear
    <3>5. Locals'
      BY <2>1, <3>1 DEF Locals, Fixing
    <3> QED
      BY <1>2, <2>1, <3>1, <3>4, <3>5 DEF Idle, Fixing
  <2> QED
    BY <1>3, <2>2, <2>3
<1>5. CASE FixStore
  <2>1. /\ pc = "FixStore" /\ UNCHANGED <<call, value, reg>>
        /\ call.ret \in {"ChkGo", "ChkValid"} /\ (call.ret = "ChkValid" => idx > 0)
        /\ IF idx < 3 THEN idx' = idx + 1 /\ UNCHANGED pc ELSE idx' = 0 /\ pc' = call.ret
    BY <1>5 DEF FixStore, Idle, Fixing, Goto
  <2>2. \A b \in {GO, AVAIL} : Clear(b) => Clear(b)'
    BY <1>3, <1>5, <2>1, FixBits DEF Clear
  <2>3. Locals'
    BY <1>3, <2>1 DEF Locals, Fixing
  <2>4. Idle'
    BY <1>3, <2>1 DEF Idle, Fixing
  <2> QED
    BY <1>2, <2>2, <2>3, <2>4
<1>6. CASE ChkValid
  <2>1. UNCHANGED <<sts, value>> /\ pc = "ChkValid"
    BY <1>6 DEF ChkValid
  <2>2. CASE VALID \in sts[0]
    <3>1. pc' = "ChkGo" /\ UNCHANGED <<call, idx, reg>>
      BY <1>6, <2>2 DEF ChkValid, Goto
    <3> QED
      BY <1>2, <2>1, <3>1 DEF Idle, Locals, Fixing, Clear
  <2>3. CASE VALID \notin sts[0]
    <3>1. /\ pc' = "FixLoad" /\ idx' = 0 /\ reg' = {}
          /\ call' = [set |-> {READY, SELFTEST} \cup BURST, unset |-> {}, ret |-> "ChkGo"]
      BY <1>6, <2>3 DEF ChkValid, CallFixSTS, Goto
    <3>2. GO \notin call'.set /\ AVAIL \notin call'.set /\ call'.ret = "ChkGo"
      BY <3>1 DEF GO, AVAIL, READY, SELFTEST, BURST
    <3> QED
      BY <1>2, <2>1, <3>1, <3>2 DEF Idle, Locals, Fixing, Clear
  <2> QED
    BY <2>2, <2>3
<1>7. CASE ChkGo
  <2>1. UNCHANGED <<sts, value, reg, idx, call>> /\ pc = "ChkGo"
    BY <1>7 DEF ChkGo
  <2>2. pc' = IF GO \in sts[0] THEN "ReadSize" ELSE "ChkValid"
    BY <1>7 DEF ChkGo, Goto
  <2> QED
    BY <1>2, <2>1, <2>2 DEF Idle, Locals, Fixing, Clear
<1> QED
  BY <1>1, <1>4, <1>5, <1>6, <1>7

(* A step of main in the loop that offers the response: dataAvail comes up *)
(* no later than stsValid, and stays up.                                   *)
LEMMA OfferStep ==
  ASSUME TypeOK, Locals, Offering, MainStep
  PROVE  /\ UNCHANGED <<fifo, fifo_fill, fifo_rsp_max, executed>>
         /\ \/ Offering'
            \/ pc' = "EndFill" /\ ~(fifo_fill < fifo_rsp_max)
         /\ AVAIL \in sts[0] => AVAIL \in sts'[0]
         /\ VALID \notin sts[0] => VALID \notin sts'[0] \/ AVAIL \in sts'[0]
         /\ Locals'
<1>1. FixLoad \/ FixStore \/ RspLoop
  BY DEF Offering, Fixing, MainStep, ReadSize, Execute, ResetFill, SetMax, LoadGo, ClearGo,
     ChkValid, ChkGo, EndFill, EndMax, EndXfer
<1>2. UNCHANGED <<fifo, fifo_fill, fifo_rsp_max, executed>>
  BY <1>1 DEF FixLoad, FixStore, RspLoop, fifoVars
<1>3. idx \in 0..3 /\ AVAIL \in 0..7
  BY DEF TypeOK, MainTypes, AVAIL
<1>4. CASE FixLoad
  <2>1. pc = "FixLoad" /\ call.ret = "RspLoop" /\ UNCHANGED <<sts, call>>
    BY <1>4 DEF FixLoad, Offering, Fixing
  <2>2. CASE idx < 3
    <3>1. idx' = idx + 1 /\ UNCHANGED <<pc, value>>
      BY <1>4, <2>2 DEF FixLoad
    <3> QED
      BY <1>2, <1>3, <2>1, <3>1 DEF Offering, Locals, Fixing
  <2>3. CASE idx = 3
    <3>1. idx' = 0 /\ reg' = {} /\ pc' = "FixStore"
      BY <1>4, <2>3 DEF FixLoad, Goto
    <3>2. AVAIL \in value'
      BY <1>4, <2>1, <2>3, FixBits DEF Locals, Fixing
    <3> QED
      BY <1>2, <2>1, <3>1, <3>2 DEF Offering, Locals, Fixing
  <2> QED
    BY <1>3, <2>2, <2>3
<1>5. CASE FixStore
  <2>1. /\ pc = "FixStore" /\ UNCHANGED <<call, value, reg>> /\ call.ret = "RspLoop"
        /\ IF idx < 3 THEN idx' = idx + 1 /\ UNCHANGED pc ELSE idx' = 0 /\ pc' = call.ret
    BY <1>5 DEF FixStore, Offering, Fixing, Goto
  <2>2. AVAIL \in value
    BY <2>1 DEF Locals
  <2>3. sts'[0] = IF idx = 0 THEN {c \in 0..7 : c \in value \cup {VALID}} ELSE sts[0]
    BY <1>5, FixBits
  <2>4. Offering' /\ Locals'
    BY <1>3, <2>1, <2>2 DEF Offering, Locals, Fixing
  <2> QED
    BY <1>2, <1>3, <2>2, <2>3, <2>4
<1>6. CASE RspLoop
  <2>1. pc = "RspLoop" /\ UNCHANGED <<sts, value>>
    BY <1>6 DEF RspLoop
  <2>2. CASE fifo_fill < fifo_rsp_max
    <3>1. /\ pc' = "FixLoad" /\ idx' = 0 /\ reg' = {}
          /\ call' = [set |-> {AVAIL}, unset |-> {}, ret |-> "RspLoop"]
      BY <1>6, <2>2 DEF RspLoop, CallFixSTS, Goto
    <3> QED
      BY <1>2, <2>1, <3>1 DEF Offering, Locals, Fixing
  <2>3. CASE ~(fifo_fill < fifo_rsp_max)
    <3>1. pc' = "EndFill" /\ UNCHANGED <<call, idx, reg>>
      BY <1>6, <2>3 DEF RspLoop, Goto
    <3> QED
      BY <1>2, <2>1, <2>3, <3>1 DEF Locals, Fixing
  <2> QED
    BY <2>2, <2>3
<1> QED
  BY <1>1, <1>4, <1>5, <1>6

(* A step of main at the end of a command: the status is not written until *)
(* the store that makes main idle, and that one takes the bits down.       *)
LEMMA EndStep ==
  ASSUME TypeOK, Locals, Ending, MainStep
  PROVE  /\ UNCHANGED <<fifo, executed>>
         /\ \/ Closing' /\ sts' = sts
            \/ Idle' /\ Clear(GO)' /\ Clear(AVAIL)'
         /\ fifo_fill' = IF pc = "EndFill" THEN 0 ELSE fifo_fill
         /\ Locals'
<1>1. FixLoad \/ FixStore \/ EndFill \/ EndMax \/ EndXfer
  BY DEF Ending, Closing, MainStep, ReadSize, Execute, ResetFill, SetMax, LoadGo, ClearGo,
     ChkValid, ChkGo, RspLoop
<1>2. idx \in 0..3 /\ VALID \notin {GO, AVAIL}
  BY DEF TypeOK, MainTypes, VALID, GO, AVAIL
<1>3. CASE FixLoad
  <2>1. pc = "FixLoad" /\ call.ret = "ChkValid" /\ UNCHANGED <<sts, call, fifoVars, executed>>
    BY <1>3 DEF FixLoad, Ending, Closing
  <2>2. CASE idx < 3
    <3>1. idx' = idx + 1 /\ UNCHANGED <<pc, value>>
      BY <1>3, <2>2 DEF FixLoad
    <3> QED
      BY <1>2, <2>1, <3>1 DEF Closing, Locals, Fixing, fifoVars
  <2>3. CASE idx = 3
    <3>1. idx' = 0 /\ reg' = {} /\ pc' = "FixStore"
      BY <1>3, <2>3 DEF FixLoad, Goto
    <3>2. {AVAIL, GO} \subseteq call.unset
      BY <2>1 DEF Locals, Fixing, EndOfCommand
    <3>3. AVAIL \notin value' /\ GO \notin value'
      BY <1>2, <1>3, <2>3, <3>2, FixBits
    <3> QED
      BY <2>1, <3>1, <3>3 DEF Closing, Locals, Fixing, fifoVars
  <2> QED
    BY <1>2, <2>2, <2>3
<1>4. CASE FixStore
  <2>1. /\ pc = "FixStore" /\ UNCHANGED <<call, value, reg, fifoVars, executed>>
        /\ call.ret = "ChkValid" /\ idx = 0 /\ idx' = 1 /\ pc' = pc
    BY <1>4 DEF FixStore, Ending, Closing
  <2>2. AVAIL \notin value /\ GO \notin value /\ reg = {}
    BY <2>1 DEF Locals
  <2>3. sts'[0] = {c \in 0..7 : c \in value \cup {VALID}}
    BY <1>4, <2>1, FixBits
  <2>4. Clear(GO)' /\ Clear(AVAIL)'
    BY <1>2, <2>1, <2>2, <2>3 DEF Clear
  <2>5. Idle' /\ Locals'
    BY <2>1, <2>2 DEF Idle, Locals, Fixing
  <2> QED
    BY <2>1, <2>4, <2>5 DEF fifoVars
<1>5. CASE EndFill
  BY <1>5 DEF EndFill, RestartFill, Goto, Closing, Locals, Fixing
<1>6. CASE EndMax
  BY <1>6 DEF EndMax, Goto, Closing, Locals, Fixing
<1>7. CASE EndXfer
  <2>1. /\ pc = "EndXfer" /\ pc' = "FixLoad" /\ idx' = 0 /\ reg' = {}
        /\ call' = [set |-> {READY}, unset |-> EndOfCommand, ret |-> "ChkValid"]
        /\ UNCHANGED <<sts, fifoVars, executed>>
    BY <1>7 DEF EndXfer, CallFixSTS, Goto
  <2>2. GO \notin call'.set /\ AVAIL \notin call'.set /\ call'.ret = "ChkValid"
        /\ call'.unset = EndOfCommand
    BY <2>1 DEF GO, AVAIL, READY
  <2> QED
    BY <2>1, <2>2 DEF Closing, Locals, Fixing, fifoVars
<1> QED
  BY <1>1, <1>3, <1>4, <1>5, <1>6, <1>7

(* From the end of the execution to the loop that offers the response.     *)
LEMMA StageStep ==
  ASSUME TypeOK, Locals, Staging, MainStep
  PROVE  /\ UNCHANGED <<fifo, executed>>
         /\ Staging' \/ pc' = "RspLoop"
         /\ pc' # "ResetFill" /\ (pc' = "SetMax" <=> pc = "ResetFill")
         /\ fifo_fill' = IF pc = "ResetFill" THEN 0 ELSE fifo_fill
         /\ fifo_rsp_max' = IF pc = "SetMax" THEN RspLen ELSE fifo_rsp_max
         /\ Clear(AVAIL) => Clear(AVAIL)'
         /\ Locals'
<1>1. ResetFill \/ SetMax \/ LoadGo \/ ClearGo
  BY DEF Staging, MainStep, ReadSize, Execute, FixLoad, FixStore, ChkValid, ChkGo, RspLoop,
     EndFill, EndMax, EndXfer
<1>2. CASE ResetFill
  BY <1>2 DEF ResetFill, Goto, Staging, Locals, Fixing, Clear
<1>3. CASE SetMax
  BY <1>3 DEF SetMax, ResponseSize, Goto, Staging, Locals, Fixing, Clear
<1>4. CASE LoadGo
  BY <1>4 DEF LoadGo, Goto, Staging, Locals, Fixing, Clear, fifoVars
<1>5. CASE ClearGo
  <2>1. sts'[0] = reg /\ reg' = {} /\ pc = "ClearGo" /\ pc' = "RspLoop"
    BY <1>5 DEF ClearGo, Goto, TypeOK, RegisterTypes
  <2>2. UNCHANGED <<fifoVars, value, idx, call, executed>>
    BY <1>5 DEF ClearGo
  <2> QED
    BY <2>1, <2>2 DEF Staging, Locals, Fixing, Clear, fifoVars
<1> QED
  BY <1>1, <1>2, <1>3, <1>4, <1>5

(* The command is taken.                                                   *)
LEMMA RequestIsCommand ==
  ASSUME TypeOK, HasCommand
  PROVE  /\ Request = k
         /\ k \notin Oversized => ~TooLarge
<1>1. CmdLen \in Nat \ {0} /\ k \in 1..NumCmds /\ NumCmds \in Nat
  BY SizeAssumption DEF TypeOK, HostTypes
<1>2. \A j \in 1..NumCmds : fifo[0] = CmdByte(j, 0) => j = k
  <2>1. fifo[0] = {k * 1000 + 10 + 0}
    BY <1>1 DEF HasCommand, CmdByte, Stride
  <2>2. \A j \in 1..NumCmds : {k * 1000 + 10 + 0} = {j * 1000 + 10 + 0} => j = k
    <3> SUFFICES ASSUME NEW j \in 1..NumCmds, {k * 1000 + 10 + 0} = {j * 1000 + 10 + 0}
                 PROVE  j = k
      OBVIOUS
    <3>1. k * 1000 + 10 + 0 = j * 1000 + 10 + 0
      <4>1. \A x, y : {x} = {y} => x = y
        OBVIOUS
      <4> QED
        BY <4>1
    <3> QED
      BY <1>1, <3>1
  <2> QED
    BY <2>1, <2>2 DEF CmdByte, Stride
<1>3. Request = k
  <2> DEFINE Holds(j) == \A i \in 0..CmdLen - 1 : fifo[i] = CmdByte(j, i)
  <2>1. Holds(k)
    BY DEF HasCommand
  <2>2. \A j \in 1..NumCmds : Holds(j) => j = k
    BY <1>1, <1>2
  <2>3. Request = CHOOSE j \in 1..NumCmds : Holds(j)
    BY <1>1, <2>1 DEF Request
  <2> HIDE DEF Holds
  <2> QED
    BY <1>1, <2>1, <2>2, <2>3
<1>4. k \notin Oversized => ~TooLarge
  BY <1>2, HostAssumption DEF TooLarge
<1> QED
  BY <1>3, <1>4

LEMMA TakeStep ==
  ASSUME TypeOK, Locals, Taking, MainStep, HasCommand, k \notin Oversized, k' = k
  PROVE  /\ UNCHANGED <<sts, value, reg, fifo_fill>>
         /\ \/ pc' = "Execute" /\ UNCHANGED <<fifo, executed>>
            \/ /\ pc = "Execute" /\ pc' = "ResetFill"
               /\ executed' = Append(executed, k) /\ HasResponse'
         /\ Locals'
<1>1. ReadSize \/ Execute
  BY DEF Taking, MainStep, FixLoad, FixStore, ChkValid, ChkGo, ResetFill, SetMax, LoadGo,
     ClearGo, RspLoop, EndFill, EndMax, EndXfer
<1>2. CASE ReadSize
  <2>1. pc = "ReadSize" /\ pc' = "Execute" /\ UNCHANGED <<sts, fifoVars, value, reg, idx, call, executed>>
    BY <1>2, RequestIsCommand DEF ReadSize, Goto
  <2> QED
    BY <2>1 DEF Locals, Fixing, fifoVars
<1>3. CASE Execute
  <2>1. /\ pc = "Execute" /\ pc' = "ResetFill" /\ executed' = Append(executed, k)
        /\ UNCHANGED <<sts, fifo_fill, value, reg, idx, call>>
    BY <1>3, RequestIsCommand DEF Execute, Goto
  <2>2. fifo' = [i \in 0..BufSize - 1 |-> IF i < RspLen THEN RspByte(k, i) ELSE fifo[i]]
    BY <1>3, RequestIsCommand DEF Execute
  <2>3. HasResponse'
    BY <2>2, SizeAssumption DEF HasResponse
  <2> QED
    BY <2>1, <2>3 DEF Locals, Fixing
<1> QED
  BY <1>1, <1>2, <1>3

(* What main leaves alone.                                                 *)
LEMMA MainKeeps ==
  ASSUME Normal, Main
  PROVE  /\ MainStep /\ UNCHANGED hostVars /\ UNCHANGED <<rxne, tx>>
         /\ TypeOK' /\ InFrame' /\ ReplyStaged' /\ Transaction'
         /\ Handled' = Handled /\ Accessed' = Accessed
         /\ (Unasked' <=> Unasked) /\ (Asked' <=> Asked)
         /\ (Reading' <=> Reading) /\ (Fetched' <=> Fetched)
<1>1. MainStep /\ UNCHANGED hostVars
  BY InitEnters DEF Normal, FrameInv, NoReinit, Main
<1>2. UNCHANGED <<isRead, nbytes, addrbytes, lastbyte, address, rxne, tx>>
  BY <1>1 DEF MainStep, spiVars
<1>3. UNCHANGED <<phase, k, off, txn, pos, retries, reply, answers>>
  BY <1>1 DEF hostVars
<1>4. Handled' = Handled /\ Accessed' = Accessed
  BY <1>2, <1>3 DEF Handled, Accessed
<1>5. transfered_bytes' \in {transfered_bytes, 0}
  BY <1>1 DEF MainStep, FixLoad, FixStore, ChkValid, ChkGo, ReadSize,
     Execute, ResetFill, SetMax, LoadGo, ClearGo, RspLoop, EndFill, EndMax, EndXfer
<1>6. Transaction'
  BY <1>2, <1>3, <1>4, <1>5 DEF Normal, Transaction, TxnOf, Complete
<1>7. InFrame' /\ ReplyStaged'
  BY <1>2, <1>3, QuietFrame DEF Normal, FrameInv
<1> QED
  BY <1>1, <1>2, <1>3, <1>4, <1>6, <1>7, MainType
  DEF Normal, FrameInv, Unasked, Asked, Reading, Fetched

(* Where main is, is one of these places only.                             *)
LEMMA Apart ==
  /\ Idle => ~Taking /\ ~Staging /\ ~Offering /\ ~Ending /\ ~Closing /\ NoReinit
  /\ Taking => ~Staging /\ ~Offering /\ ~Ending /\ ~Closing /\ NoReinit
  /\ Staging => ~Offering /\ ~Ending /\ ~Closing /\ NoReinit
  /\ Offering => ~Ending /\ ~Closing /\ NoReinit /\ pc # "EndFill"
  /\ Ending => NoReinit
  /\ Closing => pc # "EndFill"
BY DEF Idle, Taking, Staging, Offering, Ending, Closing, Fixing, NoReinit, InitLabels

LEMMA ApartNext ==
  /\ Idle' => ~Taking' /\ ~Staging' /\ ~Offering' /\ ~Ending' /\ ~Closing' /\ NoReinit'
  /\ Taking' => ~Staging' /\ ~Offering' /\ ~Ending' /\ ~Closing' /\ NoReinit'
  /\ Staging' => ~Offering' /\ ~Ending' /\ ~Closing' /\ NoReinit'
  /\ Offering' => ~Ending' /\ ~Closing' /\ NoReinit'
  /\ Ending' => NoReinit'
  /\ pc' = "EndFill" => Ending' /\ ~Closing'
  /\ Closing' => Ending'
BY DEF Idle, Taking, Staging, Offering, Ending, Closing, Fixing, NoReinit, InitLabels

(* Between two commands.                                                   *)
LEMMA RestStep ==
  ASSUME TypeOK, Locals, AtRest, MainStep
  PROVE  /\ AtRest' /\ Locals' /\ NoReinit'
         /\ UNCHANGED <<fifo, executed>>
         /\ Idle => Idle' /\ fifo_fill' = fifo_fill
         /\ ~Idle /\ Idle' => fifo_fill' = 0
         /\ VALID \notin sts[0] \/ AVAIL \in sts[0] =>
              Idle' \/ VALID \notin sts'[0] \/ AVAIL \in sts'[0]
<1>1. CASE Idle
  <2>1. Clear(GO) /\ Clear(AVAIL)
    BY <1>1 DEF AtRest
  <2>2. /\ UNCHANGED <<fifo, fifo_fill, executed>> /\ Idle' /\ Locals'
        /\ Clear(GO)' /\ Clear(AVAIL)'
    BY <1>1, <2>1, IdleStep DEF Clear
  <2> QED
    BY <1>1, <2>2, ApartNext DEF AtRest
<1>2. CASE Offering
  <2>1. fifo_fill = RspLen /\ fifo_rsp_max = RspLen
    BY <1>2 DEF AtRest
  <2>2. /\ UNCHANGED <<fifo, fifo_fill, fifo_rsp_max, executed>> /\ Locals'
        /\ Offering' \/ pc' = "EndFill"
        /\ VALID \notin sts[0] \/ AVAIL \in sts[0] => VALID \notin sts'[0] \/ AVAIL \in sts'[0]
    BY <1>2, OfferStep
  <2>3. ~Idle /\ ~Idle' /\ ~Closing' /\ NoReinit' /\ (Offering' \/ Ending')
    BY <1>2, <2>2, Apart, ApartNext
  <2> QED
    BY <2>1, <2>2, <2>3 DEF AtRest
<1>3. CASE Ending
  <2>1. /\ UNCHANGED <<fifo, executed>> /\ Locals'
        /\ (Closing' /\ sts' = sts) \/ (Idle' /\ Clear(GO)' /\ Clear(AVAIL)')
        /\ fifo_fill' = IF pc = "EndFill" THEN 0 ELSE fifo_fill
    BY <1>3, EndStep
  <2>2. fifo_fill' = 0
    BY <1>3, <2>1 DEF AtRest, Ending
  <2>3. ~Idle /\ ~Offering' /\ NoReinit' /\ (Closing' => Ending' /\ ~Idle')
    BY <1>3, <2>1, Apart, ApartNext
  <2> QED
    BY <2>1, <2>2, <2>3 DEF AtRest
<1> QED
  BY <1>1, <1>2, <1>3 DEF AtRest

(* In every stage of the exchange.                                         *)
LEMMA MainUnasked ==
  ASSUME Normal, Main, Unasked
  PROVE  UnaskedInv' /\ Locals' /\ NoReinit'
<1>1. TypeOK /\ Locals /\ UnaskedInv
  BY DEF Normal, FrameInv, Stages
<1>2. MainStep /\ UNCHANGED <<phase, k, off>> /\ Accessed' = Accessed
  BY MainKeeps DEF hostVars
<1>3. AtRest /\ executed = Upto(k - 1)
  BY <1>1 DEF UnaskedInv
<1>4. /\ AtRest' /\ Locals' /\ NoReinit' /\ UNCHANGED <<fifo, executed>>
      /\ Idle => Idle' /\ fifo_fill' = fifo_fill
      /\ ~Idle /\ Idle' => fifo_fill' = 0
      /\ VALID \notin sts[0] \/ AVAIL \in sts[0] =>
           Idle' \/ VALID \notin sts'[0] \/ AVAIL \in sts'[0]
  BY <1>1, <1>2, <1>3, RestStep
<1>5. UnaskedInv'
  BY <1>1, <1>2, <1>3, <1>4 DEF UnaskedInv, HasCommand
<1> QED
  BY <1>4, <1>5

LEMMA MainAsked ==
  ASSUME Normal, Main, Asked
  PROVE  AskedInv' /\ Locals' /\ NoReinit'
<1>1. TypeOK /\ Locals /\ AskedInv /\ k \notin Oversized /\ k \in Nat /\ k > 0
  BY DEF Normal, FrameInv, Stages, AskedInv, TypeOK, HostTypes
<1>2. MainStep /\ UNCHANGED <<phase, k, off>>
  BY MainKeeps DEF hostVars
<1>3. CASE Idle /\ executed = Upto(k - 1) /\ HasCommand /\ Clear(AVAIL)
  <2>1. /\ UNCHANGED <<fifo, executed>> /\ (Idle' \/ pc' = "ReadSize")
        /\ Clear(AVAIL)' /\ Locals'
    BY <1>1, <1>2, <1>3, IdleStep DEF Clear
  <2>2. (Idle' \/ Taking') /\ NoReinit'
    BY <2>1, ApartNext DEF Taking
  <2>3. HasCommand'
    BY <1>2, <1>3, <2>1 DEF HasCommand
  <2> QED
    BY <1>1, <1>2, <1>3, <2>1, <2>2, <2>3 DEF AskedInv
<1>4. CASE Taking /\ executed = Upto(k - 1) /\ HasCommand /\ Clear(AVAIL)
  <2>1. /\ UNCHANGED <<sts, value, reg, fifo_fill>> /\ Locals'
        /\ \/ pc' = "Execute" /\ UNCHANGED <<fifo, executed>>
           \/ /\ pc = "Execute" /\ pc' = "ResetFill"
              /\ executed' = Append(executed, k) /\ HasResponse'
    BY <1>1, <1>2, <1>4, TakeStep
  <2>2. Clear(AVAIL)'
    BY <1>4, <2>1 DEF Clear
  <2>3. CASE pc' = "Execute" /\ UNCHANGED <<fifo, executed>>
    <3>1. Taking' /\ NoReinit' /\ HasCommand'
      BY <1>2, <1>4, <2>3 DEF Taking, NoReinit, InitLabels, HasCommand
    <3> QED
      BY <1>1, <1>2, <1>4, <2>1, <2>2, <2>3, <3>1 DEF AskedInv
  <2>4. CASE pc' = "ResetFill" /\ executed' = Append(executed, k) /\ HasResponse'
    <3>1. executed' = Upto(k)
      BY <1>1, <1>4, <2>4 DEF Upto
    <3>2. Staging' /\ NoReinit'
      BY <2>4 DEF Staging, NoReinit, InitLabels
    <3> QED
      BY <1>1, <1>2, <2>1, <2>2, <2>4, <3>1, <3>2 DEF AskedInv
  <2> QED
    BY <2>1, <2>3, <2>4
<1>5. CASE Staging /\ executed = Upto(k)
  <2>1. /\ HasResponse /\ Clear(AVAIL)
        /\ pc # "ResetFill" => fifo_fill = 0
        /\ pc \notin {"ResetFill", "SetMax"} => fifo_rsp_max = RspLen
    BY <1>1, <1>5, Apart DEF AskedInv
  <2>2. /\ UNCHANGED <<fifo, executed>> /\ (Staging' \/ pc' = "RspLoop")
        /\ pc' # "ResetFill" /\ (pc' = "SetMax" <=> pc = "ResetFill")
        /\ fifo_fill' = IF pc = "ResetFill" THEN 0 ELSE fifo_fill
        /\ fifo_rsp_max' = IF pc = "SetMax" THEN RspLen ELSE fifo_rsp_max
        /\ Clear(AVAIL)' /\ Locals'
    BY <1>1, <1>2, <1>5, <2>1, StageStep
  <2>3. (Staging' \/ Offering') /\ NoReinit'
    BY <2>2, ApartNext DEF Offering
  <2>4. HasResponse'
    BY <1>2, <2>1, <2>2 DEF HasResponse
  <2> QED
    BY <1>1, <1>2, <1>5, <2>1, <2>2, <2>3, <2>4 DEF AskedInv
<1>6. CASE Offering /\ executed = Upto(k)
  <2>1. HasResponse /\ fifo_fill = 0 /\ fifo_rsp_max = RspLen
    BY <1>1, <1>6, Apart DEF AskedInv, Offering, Fixing
  <2>2. /\ UNCHANGED <<fifo, fifo_fill, fifo_rsp_max, executed>> /\ Locals' /\ Offering'
    BY <1>1, <1>2, <1>6, <2>1, OfferStep, SizeAssumption
  <2>3. HasResponse'
    BY <1>2, <2>1, <2>2 DEF HasResponse
  <2> QED
    BY <1>1, <1>2, <1>6, <2>1, <2>2, <2>3, ApartNext DEF AskedInv
<1> QED
  BY <1>1, <1>3, <1>4, <1>5, <1>6 DEF AskedInv

LEMMA MainReading ==
  ASSUME Normal, Main, Reading
  PROVE  ReadingInv' /\ Locals' /\ NoReinit'
<1>1. TypeOK /\ Locals /\ ReadingInv
  BY DEF Normal, FrameInv, Stages
<1>2. MainStep /\ UNCHANGED <<phase, k, off>> /\ Accessed' = Accessed
  BY MainKeeps DEF hostVars
<1>3. fifo_fill = off + Accessed /\ fifo_rsp_max = RspLen /\ fifo_fill < RspLen /\ Offering
  BY <1>1 DEF ReadingInv, Reading
<1>4. /\ UNCHANGED <<fifo, fifo_fill, fifo_rsp_max, executed>>
      /\ Offering' /\ Locals' /\ AVAIL \in sts'[0]
  BY <1>1, <1>2, <1>3, OfferStep DEF ReadingInv
<1>5. HasResponse'
  BY <1>1, <1>2, <1>4 DEF ReadingInv, HasResponse
<1> QED
  BY <1>1, <1>2, <1>4, <1>5, ApartNext DEF ReadingInv

LEMMA MainFetched ==
  ASSUME Normal, Main, Fetched
  PROVE  FetchedInv' /\ Locals' /\ NoReinit'
<1>1. TypeOK /\ Locals /\ FetchedInv
  BY DEF Normal, FrameInv, Stages
<1>2. MainStep /\ UNCHANGED <<phase, k, off>>
  BY MainKeeps DEF hostVars
<1>3. AtRest
  BY <1>1 DEF FetchedInv
<1>4. /\ AtRest' /\ Locals' /\ NoReinit' /\ UNCHANGED <<fifo, executed>>
      /\ Idle => Idle' /\ fifo_fill' = fifo_fill
      /\ ~Idle /\ Idle' => fifo_fill' = 0
  BY <1>1, <1>2, <1>3, RestStep
<1> QED
  BY <1>1, <1>2, <1>4 DEF FetchedInv

(* Some stage it is: the host never reads past the response.               *)
LEMMA SomeStage ==
  ASSUME TypeOK, Transaction
  PROVE  Unasked \/ Asked \/ Reading \/ Fetched
<1>1. phase \in Phases /\ off \in Nat /\ Accessed \in 0..txn.len /\ txn.len \in 1..64
  BY TxnTypes DEF TypeOK, HostTypes
<1>2. phase = "fetch" => off + txn.len <= RspLen
  BY TxnShape
<1>3. RspLen \in Nat
  BY SizeAssumption
<1> QED
  BY <1>1, <1>2, <1>3 DEF Phases, Unasked, Asked, Reading, Fetched

LEMMA MainNormal ==
  ASSUME Normal, Main
  PROVE  Normal'
<1>1. Unasked \/ Asked \/ Reading \/ Fetched
  BY SomeStage DEF Normal, FrameInv
<1>2. Locals' /\ NoReinit'
  BY <1>1, MainUnasked, MainAsked, MainReading, MainFetched
<1>3. Stages'
  BY MainKeeps, MainUnasked, MainAsked, MainReading, MainFetched DEF Stages
<1>4. UNCHANGED <<phase, k, off, txn, pos, reply, rxne, tx, answers>>
  BY MainKeeps DEF hostVars
<1>5. Replies'
  <2>1. Received' = Received
    BY <1>4 DEF Received
  <2>2. ASSUME phase = "check", NEW b, ReadyHolds(b) PROVE ReadyHolds(b)'
    <3>1. UnaskedInv /\ TypeOK /\ Locals
      BY <2>2 DEF Normal, FrameInv, Stages, Unasked
    <3>2. Idle => Idle'
      BY <3>1, MainKeeps, RestStep DEF UnaskedInv
    <3> QED
      BY <2>2, <3>2 DEF ReadyHolds
  <2>3. ASSUME phase = "poll", NEW b, AvailHolds(b) PROVE AvailHolds(b)'
    <3>1. AskedInv /\ TypeOK /\ Locals
      BY <2>3 DEF Normal, FrameInv, Stages, Asked
    <3>2. Offering => fifo_fill = 0 /\ fifo_rsp_max = RspLen
      BY <3>1, Apart DEF AskedInv, Offering, Fixing
    <3>3. Offering /\ AVAIL \in sts[0] => Offering' /\ AVAIL \in sts'[0]
      BY <3>1, <3>2, MainKeeps, OfferStep, SizeAssumption
    <3> QED
      BY <2>3, <3>3 DEF AvailHolds
  <2> QED
    BY <1>4, <2>1, <2>2, <2>3 DEF Normal, Replies
<1> QED
  BY <1>2, <1>3, <1>4, <1>5, MainKeeps DEF Normal, FrameInv
-----------------------------------------------------------------------------
(* The host.                                                               *)

(* A byte is clocked: the host collects what was staged for it.            *)
LEMMA ClockNormal ==
  ASSUME Normal, HostClock
  PROVE  Normal'
<1>1. /\ TypeOK /\ Transaction /\ Stages /\ FrameInv /\ Replies
      /\ pos \in Nat /\ pos < 4 + txn.len /\ rxne = FALSE /\ txn.len \in 1..64 /\ off \in Nat
  BY TxnTypes DEF Normal, FrameInv, HostClock, TypeOK, HostTypes
<1>2. /\ pos' = pos + 1 /\ rxne' = TRUE
      /\ UNCHANGED <<sts, fifoVars, frameVars, mainVars, phase, k, off, txn, retries, answers>>
  BY DEF HostClock
<1>3. Handled' = Handled /\ Accessed' = Accessed
  BY <1>1, <1>2 DEF Handled, Accessed
<1>4. phase # "off"
  BY <1>1 DEF Transaction, Complete
<1>5. FrameInv'
  <2>1. TypeOK' /\ InFrame' /\ ReplyStaged'
    BY <1>1, HostClockTypes, HostClockFrame
  <2>2. NoReinit'
    BY <1>1, <1>2 DEF FrameInv, NoReinit, mainVars
  <2> QED
    BY <2>1, <2>2 DEF FrameInv
<1>6. Stages'
  BY <1>1, <1>2, <1>3, StagesKept
<1>7. Locals'
  BY <1>2 DEF Normal, Locals, Fixing, mainVars
<1>8. Transaction'
  BY <1>1, <1>2, <1>3, <1>4 DEF Transaction, TxnOf, frameVars
<1>9. txn.rd = TRUE /\ pos >= 4 => reply' = Append(reply, Head(tx))
  <2> SUFFICES ASSUME txn.rd = TRUE, pos >= 4 PROVE reply' = Append(reply, Head(tx))
    OBVIOUS
  <2>1. Len(tx) = 1
    BY <1>1 DEF FrameInv, ReplyStaged
  <2>2. tx # <<>>
    BY <2>1
  <2> QED
    BY <2>2 DEF HostClock
<1>10. txn.rd = TRUE /\ pos < 4 => reply' = reply
  BY <1>1 DEF HostClock
<1>11. Replies'
  <2>1. /\ (Idle' <=> Idle) /\ (Offering' <=> Offering) /\ reply \in Seq(ByteValue)
    BY <1>1, <1>2 DEF Idle, Offering, Fixing, mainVars, TypeOK, HostTypes
  <2>2. CASE phase \in {"check", "poll"}
    <3>1. txn.rd = TRUE
      BY <1>1, <2>2, TxnShape
    <3>2. CASE pos < 4
      BY <1>1, <1>2, <1>10, <2>2, <3>1, <3>2 DEF Replies
    <3>3. CASE pos = 4
      <4>1. reply = <<>> /\ reply' = Append(reply, Head(tx))
        BY <1>1, <1>9, <2>2, <3>1, <3>3 DEF Replies
      <4>2. Len(reply') = 1 /\ reply'[1] = Head(tx)
        BY <4>1
      <4>3. /\ phase = "check" => ReadyHolds(Head(tx))
            /\ phase = "poll" => AvailHolds(Head(tx))
        BY <1>1, <3>3 DEF Replies
      <4> QED
        BY <1>2, <2>1, <2>2, <3>3, <4>2, <4>3 DEF Replies, ReadyHolds, AvailHolds
    <3>4. CASE pos > 4
      <4>1. reply' = Append(reply, Head(tx)) /\ Len(reply) > 0
        BY <1>1, <1>9, <2>2, <3>1, <3>4 DEF Replies
      <4>2. Len(reply') > 0 /\ reply'[1] = reply[1]
        BY <2>1, <4>1
      <4>3. /\ phase = "check" => ReadyHolds(reply[1])
            /\ phase = "poll" => AvailHolds(reply[1])
        BY <1>1, <3>4 DEF Replies
      <4> QED
        BY <1>1, <1>2, <2>1, <2>2, <3>4, <4>2, <4>3 DEF Replies, ReadyHolds, AvailHolds
    <3> QED
      BY <1>1, <3>2, <3>3, <3>4
  <2>3. CASE phase = "fetch"
    <3>1. txn.rd = TRUE
      BY <1>1, <2>3, TxnShape
    <3>2. reply = [i \in 1..off + Received |-> RspByte(k, i - 1)]
      BY <1>1, <2>3 DEF Replies
    <3>3. CASE pos < 4
      <4>1. Received' = Received /\ reply' = reply
        BY <1>1, <1>2, <1>10, <3>1, <3>3 DEF Received
      <4> QED
        BY <1>2, <2>3, <3>2, <4>1 DEF Replies
    <3>4. CASE pos >= 4
      <4>1. Received = pos - 4 /\ Received' = pos - 3
        BY <1>1, <1>2, <3>4 DEF Received
      <4>2. Head(tx) = RspByte(k, off + pos - 4)
        <5>1. ~rxne /\ pos \in 4..3 + txn.len
          BY <1>1, <3>4
        <5> QED
          BY <1>1, <2>3, <5>1 DEF Replies
      <4>3. reply' = Append(reply, RspByte(k, off + pos - 4))
        BY <1>9, <3>1, <3>4, <4>2
      <4> DEFINE n == off + Received
                 f == [i \in 1..n + 1 |-> RspByte(k, i - 1)]
      <4>4. n \in Nat /\ reply = [i \in 1..n |-> RspByte(k, i - 1)]
        BY <1>1, <3>2, <3>4, <4>1
      <4>5. reply' = Append(reply, RspByte(k, n + 1 - 1))
        BY <1>1, <3>4, <4>1, <4>3
      <4>6. off + Received' = n + 1
        BY <1>1, <3>4, <4>1
      <4> HIDE DEF n
      <4>7. reply' = f
        BY <4>4, <4>5
      <4> QED
        BY <1>2, <2>3, <4>6, <4>7 DEF Replies
    <3> QED
      BY <1>1, <3>3, <3>4
  <2>4. CASE phase \notin {"check", "poll", "fetch"}
    BY <1>2, <2>4 DEF Replies
  <2> QED
    BY <2>2, <2>3, <2>4
<1> QED
  BY <1>2, <1>4, <1>5, <1>6, <1>7, <1>8, <1>11 DEF Normal

(* A transaction is over: all its payload is accessed and, if it is a      *)
(* read, received.  The next one starts from its first byte.               *)
LEMMA TurnKeeps ==
  ASSUME Normal, HostTurn
  PROVE  /\ FrameInv' /\ Locals'
         /\ UNCHANGED <<sts, fifo, fifo_fill, fifo_rsp_max, pc, value, reg, idx, call, executed>>
         /\ (Idle' <=> Idle) /\ (Offering' <=> Offering)
         /\ (Closing' <=> Closing) /\ (Ending' <=> Ending)
         /\ txn.len \in 1..64 /\ Accessed = txn.len /\ pos > 4 /\ Received = txn.len
         /\ off \in Nat /\ k \in 1..NumCmds /\ NumCmds \in Nat
         /\ pos' = 0 => Handled' = 0 /\ Accessed' = 0 /\ Received' = 0
<1>1. /\ TypeOK /\ FrameInv /\ txn.len \in 1..64 /\ txn.rd \in BOOLEAN
      /\ off \in Nat /\ k \in 1..NumCmds /\ NumCmds \in Nat
  BY TxnTypes, SizeAssumption DEF Normal, FrameInv, TypeOK, HostTypes
<1>2. /\ pos = 4 + txn.len /\ rxne = FALSE
      /\ UNCHANGED <<sts, fifoVars, frameVars, mainVars, spiVars>>
  BY <1>1 DEF HostTurn, Complete, TypeOK, HostTypes
<1>3. UNCHANGED <<sts, fifo, fifo_fill, fifo_rsp_max, pc, value, reg, idx, call, executed, rxne>>
  BY <1>2 DEF fifoVars, mainVars, spiVars
<1>4. Accessed = txn.len
  BY <1>1, <1>2 DEF Accessed, Handled
<1>5. pos > 4 /\ Received = txn.len
  BY <1>1, <1>2 DEF Received
<1>6. ASSUME pos' = 0
      PROVE  Handled' = 0 /\ Accessed' = 0 /\ Received' = 0
  BY <1>2, <1>3, <1>6 DEF Handled, Accessed, Received
<1>7. FrameInv'
  BY <1>1, <1>3, HostTurnTypes, HostTurnFrame DEF FrameInv, NoReinit
<1>8. Locals'
  BY <1>3 DEF Normal, Locals, Fixing
<1>9. /\ (Idle' <=> Idle) /\ (Offering' <=> Offering)
      /\ (Closing' <=> Closing) /\ (Ending' <=> Ending)
  BY <1>3 DEF Idle, Offering, Closing, Ending, Fixing
<1> QED
  BY <1>1, <1>3, <1>4, <1>5, <1>6, <1>7, <1>8, <1>9

(* What the next transaction starts with.                                  *)
LEMMA BeginKeeps ==
  ASSUME Normal, HostTurn, NEW ph \in Phases \ {"probe", "off"}, NEW j, NEW o, Begin(ph, j, o)
  PROVE  /\ phase' = ph /\ k' = j /\ off' = o /\ Accessed' = 0
         /\ Transaction'
         /\ ph # "fetch" => Replies' /\ reply' = <<>>
<1>1. /\ phase' = ph /\ k' = j /\ off' = o /\ pos' = 0 /\ txn' = TxnOf(phase', k', off')
      /\ ph # "fetch" => reply' = <<>>
  BY DEF Begin
<1>2. Handled' = 0 /\ Accessed' = 0
  BY <1>1, TurnKeeps
<1>3. Transaction'
  BY <1>1, <1>2 DEF Transaction
<1>4. ph # "fetch" => Replies'
  BY <1>1 DEF Replies
<1> QED
  BY <1>1, <1>2, <1>3, <1>4

(* A transaction that has accessed nothing is where it begins.            *)
LEMMA FirstByteNext ==
  ASSUME off' \in Nat, Accessed' = 0
  PROVE  off' + Accessed' = off' /\ off' + Accessed' - 1 = off' - 1
<1> DEFINE o == off'
           a == Accessed'
<1>1. o \in Nat /\ a = 0
  OBVIOUS
<1> HIDE DEF o, a
<1>2. o + a = o /\ o + a - 1 = o - 1
  BY <1>1
<1> QED
  BY <1>2 DEF o, a

(* The stage of the exchange, when the registers and main do not move: the *)
(* next transaction of a command not yet submitted.                        *)
LEMMA TurnUnasked ==
  ASSUME Normal, HostTurn, AtRest,
         phase' \in {"ready", "check", "load", "go"}, Accessed' = 0,
         executed = Upto(k' - 1),
         k' = 1 \/ phase' \in {"load", "go"} => Idle,
         Idle /\ phase' \notin {"load", "go"} => fifo_fill = 0,
         phase' = "check" => Idle \/ VALID \notin sts[0] \/ AVAIL \in sts[0],
         phase' = "load" =>
           fifo_fill = off' /\ \A i \in 0..off' - 1 : fifo[i] = CmdByte(k', i),
         phase' = "go" =>
           k' \notin Oversized /\ \A i \in 0..CmdLen - 1 : fifo[i] = CmdByte(k', i)
  PROVE  Stages'
<1>1. /\ UNCHANGED <<sts, fifo, fifo_fill, fifo_rsp_max, value, reg, executed>>
      /\ (Idle' <=> Idle) /\ (Offering' <=> Offering)
      /\ (Closing' <=> Closing) /\ (Ending' <=> Ending)
  BY TurnKeeps
<1>2. AtRest'
  BY <1>1 DEF AtRest, Clear
<1>3. phase' = "load" =>
        /\ fifo_fill' = off' + Accessed'
        /\ \A i \in 0..off' + Accessed' - 1 : fifo'[i] = CmdByte(k', i)
  <2>1. off' \in Nat
    BY TurnKeeps DEF FrameInv, TypeOK, HostTypes
  <2>2. off' + Accessed' = off' /\ off' + Accessed' - 1 = off' - 1
    BY <2>1, FirstByteNext
  <2> DEFINE n == off' + Accessed'
             m == off' + Accessed' - 1
  <2>3. fifo' = fifo /\ fifo_fill' = fifo_fill /\ n = off' /\ m = off' - 1
    BY <1>1, <2>2
  <2> HIDE DEF n, m
  <2>4. phase' = "load" => fifo_fill' = n /\ \A i \in 0..m : fifo'[i] = CmdByte(k', i)
    BY <2>3
  <2> QED
    BY <2>4 DEF n, m
<1>4. phase' = "go" => k' \notin Oversized /\ HasCommand'
  BY <1>1 DEF HasCommand
<1>5. executed' = Upto(k' - 1)
  BY <1>1
<1>6. k' = 1 \/ phase' \in {"load", "go"} => Idle'
  BY <1>1
<1>7. Idle' /\ phase' \notin {"load", "go"} => fifo_fill' = 0
  BY <1>1
<1>8. phase' = "check" \/ (phase' = "ready" /\ Accessed' > 0) =>
        Idle' \/ VALID \notin sts'[0] \/ AVAIL \in sts'[0]
  BY <1>1
<1> HIDE DEF AtRest, Idle, HasCommand, Accessed
<1>9. UnaskedInv'
  BY <1>2, <1>3, <1>4, <1>5, <1>6, <1>7, <1>8 DEF UnaskedInv
<1> QED
  BY <1>9 DEF Stages, Unasked, Asked, Reading, Fetched

LEMMA TurnAsked ==
  ASSUME Normal, HostTurn, AskedInv, phase' \in {"again", "poll"}, k' = k
  PROVE  Stages'
<1>1. UNCHANGED <<sts, fifo, fifo_fill, fifo_rsp_max, pc, value, reg, idx, call, executed, k>>
  BY TurnKeeps
<1>2. AskedInv'
  BY <1>1 DEF AskedInv, Idle, Taking, Staging, Offering, Fixing, HasCommand, HasResponse, Clear
<1> QED
  BY <1>2 DEF Stages, Unasked, Asked, Reading, Fetched

(* The next piece of the response.                                         *)
LEMMA TurnReading ==
  ASSUME Normal, HostTurn, phase' = "fetch", k' = k, Accessed' = 0,
         off' \in Nat, off' < RspLen,
         k \notin Oversized, Offering, executed = Upto(k), HasResponse,
         fifo_fill = off', fifo_rsp_max = RspLen, AVAIL \in sts[0]
  PROVE  Stages'
<1>1. /\ UNCHANGED <<sts, fifo, fifo_fill, fifo_rsp_max, executed>>
      /\ (Offering' <=> Offering)
  BY TurnKeeps
<1>2. off' + Accessed' = off'
  BY FirstByteNext
<1>3. HasResponse'
  BY <1>1 DEF HasResponse
<1>4. ReadingInv'
  BY <1>1, <1>2, <1>3 DEF ReadingInv
<1>5. Reading' /\ ~Unasked' /\ ~Asked' /\ ~Fetched'
  <2>1. off' # RspLen
    BY SizeAssumption
  <2> QED
    BY <1>2, <2>1 DEF Unasked, Asked, Reading, Fetched
<1> QED
  BY <1>4, <1>5 DEF Stages

(* A whole response is decoded to the command it answers.                  *)
LEMMA DecodeIsCommand ==
  ASSUME NEW j \in 1..NumCmds
  PROVE  Decode([i \in 1..RspLen |-> RspByte(j, i - 1)]) = j
<1> DEFINE R(n) == [i \in 1..RspLen |-> RspByte(n, i - 1)]
<1>1. RspLen \in Nat \ {0} /\ NumCmds \in Nat
  BY SizeAssumption
<1>2. \A n \in 1..NumCmds : R(n)[1] = RspByte(n, 0)
  BY <1>1
<1>3. \A n \in 1..NumCmds : RspByte(j, 0) = RspByte(n, 0) => n = j
  <2>1. \A x, y : {x} = {y} => x = y
    OBVIOUS
  <2>2. ASSUME NEW n \in 1..NumCmds, RspByte(j, 0) = RspByte(n, 0)
        PROVE  -(j * 1000 + 10 + 0) = -(n * 1000 + 10 + 0)
    <3> DEFINE a == -(j * 1000 + 10 + 0)
               b == -(n * 1000 + 10 + 0)
    <3>1. {a} = {b}
      BY <2>2 DEF RspByte, Stride
    <3> HIDE DEF a, b
    <3>2. a = b
      BY <2>1, <3>1
    <3> QED
      BY <3>2 DEF a, b
  <2>3. ASSUME NEW n \in 1..NumCmds, RspByte(j, 0) = RspByte(n, 0)
        PROVE  n = j
    BY <1>1, <2>2, <2>3
  <2> QED
    BY <2>3
<1>4. Decode(R(j)) = CHOOSE n \in 1..NumCmds : R(j) = R(n)
  BY DEF Decode
<1> HIDE DEF R
<1>5. \A n \in 1..NumCmds : R(j) = R(n) => n = j
  BY <1>2, <1>3
<1>6. Decode(R(j)) = j
  BY <1>4, <1>5
<1> QED
  BY <1>6 DEF R

(* The turns up to tpmGo.                                                  *)
SubmitsOversized == HostLoad /\ ~(off + txn.len < CmdLen) /\ k \in Oversized

LEMMA TurnToGo ==
  ASSUME Normal, WritesReady = TRUE, HostTurn,
         HostProbe \/ HostReady \/ HostCheck \/ HostLoad, ~SubmitsOversized
  PROVE  Stages' /\ Transaction' /\ Replies' /\ k' = k /\ phase' # "off"
<1>1. /\ TypeOK /\ Transaction /\ Stages /\ Replies
      /\ txn.len \in 1..64 /\ Accessed = txn.len /\ pos > 4
      /\ off \in Nat /\ k \in 1..NumCmds /\ NumCmds \in Nat
  BY TurnKeeps DEF Normal, FrameInv
<1>2. UnaskedInv
  BY <1>1 DEF HostProbe, HostReady, HostCheck, HostLoad, Stages, Unasked
<1>3. AtRest /\ executed = Upto(k - 1)
  BY <1>2 DEF UnaskedInv
<1>4. CASE HostProbe
  <2>1. phase = "probe" /\ k = 1 /\ Begin("ready", k, 0)
    BY <1>1, <1>4 DEF HostProbe, FirstPhase, Transaction
  <2>2. phase' = "ready" /\ k' = k /\ Accessed' = 0 /\ Transaction' /\ Replies'
    BY <2>1, BeginKeeps DEF Phases
  <2>3. Idle /\ (Idle => fifo_fill = 0)
    BY <1>2, <2>1 DEF UnaskedInv
  <2>4. Stages'
    BY <1>3, <2>2, <2>3, TurnUnasked
  <2> QED
    BY <2>2, <2>4
<1>5. CASE HostReady
  <2>1. phase = "ready" /\ Begin("check", k, 0)
    BY <1>5 DEF HostReady
  <2>2. phase' = "check" /\ k' = k /\ Accessed' = 0 /\ Transaction' /\ Replies'
    BY <2>1, BeginKeeps DEF Phases
  <2>3. /\ Idle => fifo_fill = 0
        /\ k = 1 => Idle
        /\ Idle \/ VALID \notin sts[0] \/ AVAIL \in sts[0]
    BY <1>1, <1>2, <2>1 DEF UnaskedInv
  <2>4. Stages'
    BY <1>3, <2>2, <2>3, TurnUnasked
  <2> QED
    BY <2>2, <2>4
<1>6. CASE HostCheck /\ SaysReady(reply[1])
  <2>1. phase = "check" /\ Begin("load", k, 0)
    BY <1>6 DEF HostCheck, SaysReady
  <2>2. /\ phase' = "load" /\ k' = k /\ Accessed' = 0 /\ off' = 0
        /\ Transaction' /\ Replies'
    BY <2>1, BeginKeeps DEF Phases
  <2>3. Idle /\ fifo_fill = 0
    BY <1>1, <1>2, <1>6, <2>1 DEF Replies, ReadyHolds, UnaskedInv
  <2>4. \A i \in 0..off' - 1 : FALSE
    BY <2>2
  <2>5. Stages'
    BY <1>3, <2>2, <2>3, <2>4, TurnUnasked
  <2> QED
    BY <2>2, <2>5
<1>7. CASE HostCheck /\ ~SaysReady(reply[1])
  <2>1. phase = "check" /\ Begin("check", k, 0)
    BY <1>7 DEF HostCheck, SaysReady
  <2>2. phase' = "check" /\ k' = k /\ Accessed' = 0 /\ Transaction' /\ Replies'
    BY <2>1, BeginKeeps DEF Phases
  <2>3. /\ Idle => fifo_fill = 0
        /\ k = 1 => Idle
        /\ Idle \/ VALID \notin sts[0] \/ AVAIL \in sts[0]
    BY <1>2, <2>1 DEF UnaskedInv
  <2>4. Stages'
    BY <1>3, <2>2, <2>3, TurnUnasked
  <2> QED
    BY <2>2, <2>4
<1>8. CASE HostLoad
  <2>1. /\ phase = "load" /\ Idle /\ fifo_fill = off + txn.len
        /\ \A i \in 0..off + txn.len - 1 : fifo[i] = CmdByte(k, i)
    BY <1>1, <1>2, <1>8 DEF HostLoad, UnaskedInv
  <2>2. off + txn.len <= CmdLen
    BY <1>1, <2>1, TxnShape
  <2>3. CASE off + txn.len < CmdLen
    <3>1. Begin("load", k, off + txn.len)
      BY <1>8, <2>3 DEF HostLoad
    <3>2. /\ phase' = "load" /\ k' = k /\ Accessed' = 0 /\ off' = off + txn.len
          /\ Transaction' /\ Replies'
      BY <3>1, BeginKeeps DEF Phases
    <3> DEFINE n == off + txn.len
    <3>3. fifo_fill = off' /\ \A i \in 0..off' - 1 : fifo[i] = CmdByte(k', i)
      <4>1. fifo_fill = n /\ (\A i \in 0..n - 1 : fifo[i] = CmdByte(k, i)) /\ off' = n
        <5>1. off + txn.len - 1 = n - 1
          BY <1>1
        <5> QED
          BY <2>1, <3>2, <5>1
      <4> HIDE DEF n
      <4> QED
        BY <3>2, <4>1
    <3>4. Stages'
      BY <1>3, <2>1, <3>2, <3>3, TurnUnasked
    <3> QED
      BY <3>2, <3>4
  <2>4. CASE off + txn.len = CmdLen
    <3>1. Begin("go", k, 0)
      BY <1>8, <2>4, SizeAssumption DEF HostLoad
    <3>2. phase' = "go" /\ k' = k /\ Accessed' = 0 /\ Transaction' /\ Replies'
      BY <3>1, BeginKeeps DEF Phases
    <3> DEFINE n == off + txn.len
    <3>3. \A i \in 0..CmdLen - 1 : fifo[i] = CmdByte(k, i)
      <4>1. (\A i \in 0..n - 1 : fifo[i] = CmdByte(k, i)) /\ n = CmdLen
        <5>1. off + txn.len - 1 = n - 1
          BY <1>1
        <5> QED
          BY <2>1, <2>4, <5>1
      <4> HIDE DEF n
      <4> QED
        BY <4>1
    <3>4. k \notin Oversized
      BY <1>1, <1>8, <2>4, SizeAssumption DEF SubmitsOversized
    <3>5. Stages'
      BY <1>3, <2>1, <3>2, <3>3, <3>4, TurnUnasked
    <3> QED
      BY <3>2, <3>5
  <2> QED
    BY <1>1, <2>2, <2>3, <2>4, SizeAssumption
<1> QED
  BY <1>4, <1>5, <1>6, <1>7, <1>8

(* The transaction that reads on from byte o of the response.              *)
LEMMA FetchBegins ==
  ASSUME Normal, HostTurn, NEW o \in Nat, Begin("fetch", k, o),
         o > 0 => reply = [i \in 1..o |-> RspByte(k, i - 1)]
  PROVE  /\ phase' = "fetch" /\ k' = k /\ off' = o /\ Accessed' = 0
         /\ Transaction' /\ Replies'
<1>1. phase' = "fetch" /\ k' = k /\ off' = o /\ Accessed' = 0 /\ Transaction'
  BY BeginKeeps DEF Phases
<1>2. pos' = 0 /\ Received' = 0 /\ reply' = IF o > 0 THEN reply ELSE <<>>
  BY TurnKeeps DEF Begin
<1>3. reply' = [i \in 1..o |-> RspByte(k, i - 1)]
  <2>1. CASE o > 0
    BY <1>2, <2>1
  <2>2. CASE o = 0
    <3>1. [i \in 1..o |-> RspByte(k, i - 1)] = <<>>
      BY <2>2
    <3> QED
      BY <1>2, <2>2, <3>1
  <2> QED
    BY <2>1, <2>2
<1>4. reply' = [i \in 1..off' + Received' |-> RspByte(k', i - 1)]
  <2> DEFINE n == off' + Received'
  <2>1. n = o + 0
    BY <1>1, <1>2
  <2> HIDE DEF n
  <2>2. n = o
    BY <2>1
  <2>3. reply' = [i \in 1..n |-> RspByte(k', i - 1)]
    BY <1>1, <1>3, <2>2
  <2> QED
    BY <2>3 DEF n
<1>5. ~(pos' \in 4..3 + txn'.len)
  BY <1>2
<1>6. Replies'
  BY <1>1, <1>4, <1>5 DEF Replies
<1> QED
  BY <1>1, <1>6

(* The turns from tpmGo to the response.                                   *)
LEMMA TurnFromGo ==
  ASSUME Normal, HostTurn, HostGo \/ HostPoll \/ HostRetry
  PROVE  Stages' /\ Transaction' /\ Replies' /\ k' = k /\ phase' # "off"
<1>1. /\ TypeOK /\ Transaction /\ Stages /\ Replies
      /\ txn.len \in 1..64 /\ Accessed = txn.len /\ pos > 4
  BY TurnKeeps DEF Normal, FrameInv
<1>2. AskedInv
  BY <1>1 DEF HostGo, HostPoll, HostRetry, Stages, Asked
<1>3. ASSUME NEW ph \in {"again", "poll"}, NEW o, Begin(ph, k, o)
      PROVE  Stages' /\ Transaction' /\ Replies' /\ k' = k /\ phase' # "off"
  <2>1. phase' = ph /\ k' = k /\ Transaction' /\ Replies'
    BY <1>3, BeginKeeps DEF Phases
  <2>2. Stages'
    BY <1>2, <2>1, TurnAsked
  <2> QED
    BY <2>1, <2>2
<1>4. ASSUME phase = "poll", AVAIL \in reply[1], Begin("fetch", k, 0)
      PROVE  Stages' /\ Transaction' /\ Replies' /\ k' = k /\ phase' # "off"
  <2>1. Offering /\ AVAIL \in sts[0]
    BY <1>1, <1>4 DEF Replies, AvailHolds
  <2>2. phase' = "fetch" /\ k' = k /\ off' = 0 /\ Accessed' = 0 /\ Transaction' /\ Replies'
    BY <1>4, FetchBegins
  <2>3. pc \notin {"ResetFill", "SetMax"}
    BY <2>1 DEF Offering, Fixing
  <2>4. /\ k \notin Oversized /\ executed = Upto(k) /\ HasResponse
        /\ fifo_fill = 0 /\ fifo_rsp_max = RspLen
    BY <1>2, <2>1, <2>3, Apart DEF AskedInv
  <2>5. off' \in Nat /\ off' < RspLen /\ fifo_fill = off'
    BY <2>2, <2>4, SizeAssumption
  <2>6. Stages'
    BY <2>1, <2>2, <2>4, <2>5, TurnReading
  <2> QED
    BY <2>2, <2>6
<1>5. CASE HostGo
  BY <1>3, <1>5 DEF HostGo
<1>6. CASE HostPoll
  BY <1>3, <1>4, <1>6 DEF HostPoll
<1>7. CASE HostRetry
  BY <1>3, <1>7 DEF HostRetry
<1> QED
  BY <1>5, <1>6, <1>7

(* The turns that end a piece of the response.                             *)
LEMMA TurnFetch ==
  ASSUME Normal, WritesReady = TRUE, HostTurn, HostFetch
  PROVE  /\ Stages' /\ Transaction' /\ Replies'
         /\ answers' = Upto(IF phase' = "off" THEN k' ELSE k' - 1)
         /\ \A j \in 1..k' - 1 : j \notin Oversized
         /\ \/ answers' = answers /\ k' = k /\ phase' = "fetch"
            \/ /\ answers' = Upto(k) /\ executed = Upto(k)
               /\ \/ phase' = "off" /\ k' = k
                  \/ phase' = "ready" /\ k' = k + 1
<1>1. /\ TypeOK /\ Transaction /\ Stages /\ Replies /\ phase = "fetch"
      /\ txn.len \in 1..64 /\ Accessed = txn.len /\ Received = txn.len /\ pos > 4
      /\ off \in Nat /\ k \in 1..NumCmds /\ NumCmds \in Nat
      /\ answers = Upto(k - 1) /\ \A j \in 1..k - 1 : j \notin Oversized
  BY TurnKeeps DEF Normal, FrameInv, HostFetch
<1>2. off + txn.len <= RspLen /\ RspLen \in Nat
  BY <1>1, TxnShape, SizeAssumption
<1> DEFINE n == off + txn.len
<1>3. reply = [i \in 1..n |-> RspByte(k, i - 1)]
  BY <1>1 DEF Replies
<1>4. CASE n < RspLen
  <2>1. Begin("fetch", k, n) /\ answers' = answers
    BY <1>4 DEF HostFetch
  <2>2. n \in Nat /\ n > 0
    BY <1>1
  <2>3. phase' = "fetch" /\ k' = k /\ off' = n /\ Accessed' = 0 /\ Transaction' /\ Replies'
    BY <1>3, <2>1, <2>2, FetchBegins
  <2>4. Reading
    BY <1>1, <1>4 DEF Reading
  <2>5. /\ k \notin Oversized /\ Offering /\ executed = Upto(k) /\ HasResponse
        /\ fifo_fill = n /\ fifo_rsp_max = RspLen /\ AVAIL \in sts[0]
    BY <1>1, <2>4 DEF Stages, ReadingInv
  <2>6. Stages'
    BY <1>4, <2>2, <2>3, <2>5, TurnReading
  <2> QED
    BY <1>1, <2>1, <2>3, <2>6
<1>5. CASE n = RspLen
  <2>1. /\ answers' = Append(answers, Decode(reply))
        /\ IF k < NumCmds THEN Begin(FirstPhase, k + 1, 0)
                          ELSE phase' = "off" /\ UNCHANGED <<k, off, txn, pos, reply>>
    <3>1. ~(off + txn.len < RspLen)
      BY <1>2, <1>5
    <3> QED
      BY <3>1 DEF HostFetch
  <2>2. Decode(reply) = k
    BY <1>1, <1>3, <1>5, DecodeIsCommand
  <2>3. answers' = Upto(k)
    BY <1>1, <2>1, <2>2 DEF Upto
  <2>4. Fetched
    BY <1>1, <1>5 DEF Fetched
  <2>5. k \notin Oversized /\ AtRest /\ executed = Upto(k) /\ (Idle => fifo_fill = 0)
    BY <1>1, <2>4 DEF Stages, FetchedInv
  <2>6. \A j \in 1..k : j \notin Oversized
    BY <1>1, <2>5
  <2>7. CASE k < NumCmds
    <3>1. Begin("ready", k + 1, 0)
      BY <2>1, <2>7 DEF FirstPhase
    <3>2. phase' = "ready" /\ k' = k + 1 /\ Accessed' = 0 /\ Transaction' /\ Replies'
      BY <3>1, BeginKeeps DEF Phases
    <3>3. k' # 1 /\ k' - 1 = k
      BY <1>1, <3>2
    <3>4. Stages'
      BY <2>5, <3>2, <3>3, TurnUnasked
    <3> QED
      BY <2>3, <2>5, <2>6, <3>2, <3>3, <3>4
  <2>8. CASE ~(k < NumCmds)
    <3>1. phase' = "off" /\ UNCHANGED <<k, off, txn, pos, reply>>
      BY <2>1, <2>8
    <3>2. UNCHANGED <<rxne, isRead, transfered_bytes>>
      BY DEF HostTurn, spiVars, frameVars
    <3>3. Handled' = Handled
      BY <3>1, <3>2 DEF Handled
    <3>4. Complete'
      BY <3>1, <3>2 DEF HostTurn, Complete
    <3>5. Transaction'
      BY <1>1, <3>1, <3>2, <3>3, <3>4 DEF Transaction
    <3>6. Replies'
      BY <3>1 DEF Replies
    <3>7. FetchedInv'
      BY <2>5, <3>1, TurnKeeps DEF FetchedInv, AtRest, Clear
    <3>8. Stages'
      BY <3>1, <3>7 DEF Stages, Unasked, Asked, Reading, Fetched
    <3> QED
      BY <1>1, <2>3, <2>5, <2>6, <3>1, <3>5, <3>6, <3>8
  <2> QED
    BY <2>7, <2>8
<1> QED
  BY <1>1, <1>2, <1>4, <1>5

LEMMA TurnNormal ==
  ASSUME Normal, WritesReady = TRUE, HostTurn, ~SubmitsOversized
  PROVE  Normal'
<1>1. FrameInv' /\ Locals'
  BY TurnKeeps
<1>2. CASE HostFetch
  BY <1>1, <1>2, TurnFetch DEF Normal
<1>3. CASE ~HostFetch
  <2>1. Stages' /\ Transaction' /\ Replies' /\ k' = k /\ phase' # "off"
    BY <1>3, TurnToGo, TurnFromGo DEF HostTurn
  <2>2. answers' = answers /\ phase # "off"
    BY <1>3 DEF HostTurn, HostProbe, HostReady, HostCheck, HostLoad, HostGo, HostPoll, HostRetry
  <2> QED
    BY <1>1, <2>1, <2>2 DEF Normal
<1> QED
  BY <1>2, <1>3
-----------------------------------------------------------------------------
(* An oversized command has been submitted.                                *)

(* How many commands count as submitted.                                   *)
Written == phase \in {"again", "poll", "fetch", "off"} \/ (phase = "go" /\ Accessed > 0)
Sent == IF Written THEN k ELSE k - 1

LEMMA SubmittedUpto ==
  /\ Submitted = Upto(Sent)
  /\ Submitted' = Upto(Sent')
BY DEF Submitted, Upto, Written, Sent

LEMMA RefusedSent ==
  ASSUME TypeOK
  PROVE  Refused <=> \E j \in Oversized : j <= Sent
<1>1. Sent \in Nat
  BY DEF TypeOK, HostTypes, Sent
<1>2. Len(Upto(Sent)) = Sent
  BY <1>1 DEF Upto
<1> QED
  BY <1>2, SubmittedUpto DEF Refused

LEMMA TypesNext ==
  ASSUME TypeOK'
  PROVE  k' \in 1..NumCmds /\ Accessed' \in Nat /\ Sent' \in Nat
<1>1. /\ k' \in 1..NumCmds /\ pos' \in 0..4 + txn'.len /\ txn'.len \in 1..64
      /\ rxne' \in BOOLEAN /\ (rxne' => pos' > 0)
  BY DEF TypeOK, HostTypes, Txns
<1>2. Handled' \in Nat
  <2>1. pos' \in Nat
    BY <1>1
  <2>2. Handled' = IF rxne' THEN pos' - 1 ELSE pos'
    BY DEF Handled
  <2>3. CASE rxne'
    <3>1. \A x \in Nat : x > 0 => x - 1 \in Nat
      OBVIOUS
    <3>2. pos' - 1 \in Nat
      BY <1>1, <2>1, <2>3, <3>1
    <3> QED
      BY <2>2, <2>3, <3>2
  <2>4. CASE ~rxne'
    BY <2>1, <2>2, <2>4
  <2> QED
    BY <2>3, <2>4
<1>3. Accessed' \in Nat
  <2> DEFINE n == txn'.len
             h == Handled'
  <2>1. n \in Nat /\ h \in Nat
    BY <1>1, <1>2
  <2>2. \/ Accessed' = IF h < 4 THEN 0 ELSE IF h - 3 > n THEN n ELSE h - 3
        \/ Accessed' = IF h < 5 THEN 0 ELSE h - 4
    BY DEF Accessed
  <2> HIDE DEF n, h
  <2> QED
    BY <2>1, <2>2
<1>4. k' \in Nat /\ k' - 1 \in Nat
  <2>1. \A x \in 1..NumCmds : x \in Nat /\ x - 1 \in Nat
    BY SizeAssumption
  <2> QED
    BY <1>1, <2>1
<1> QED
  BY <1>1, <1>3, <1>4 DEF Sent

LEMMA RefusedSentNext ==
  ASSUME TypeOK'
  PROVE  Refused' <=> \E j \in Oversized : j <= Sent'
<1>1. Sent' \in Nat
  BY TypesNext
<1>2. Len(Upto(Sent')) = Sent'
  BY <1>1 DEF Upto
<1> QED
  BY <1>2, SubmittedUpto DEF Refused

(* Within a transaction, payload bytes are accessed and nothing else       *)
(* changes for the host.                                                   *)
LEMMA WithinTransaction ==
  ASSUME TypeOK, Isr \/ Main \/ HostClock \/ UNCHANGED vars
  PROVE  UNCHANGED <<phase, k, answers>> /\ Accessed <= Accessed'
<1>1. /\ txn.rd \in BOOLEAN /\ txn.len \in 1..64 /\ pos \in 0..4 + txn.len
      /\ Accessed \in 0..txn.len /\ (rxne => pos \in 1..4 + txn.len)
  BY TxnTypes
<1>2. CASE Isr
  <2>1. UNCHANGED <<phase, k, txn, pos, answers>> /\ rxne /\ rxne' = FALSE
    BY <1>2 DEF Isr, hostVars
  <2>2. Handled = pos - 1 /\ Handled' = pos
    BY <2>1 DEF Handled
  <2>3. Accessed <= Accessed'
    BY <1>1, <2>1, <2>2 DEF Accessed
  <2> QED
    BY <2>1, <2>3
<1>3. CASE HostClock
  <2>1. UNCHANGED <<phase, k, txn, answers>> /\ rxne = FALSE /\ rxne' = TRUE /\ pos' = pos + 1
    BY <1>3, TxnTypes DEF HostClock
  <2>2. Handled' = Handled
    BY <1>1, <2>1 DEF Handled
  <2>3. Accessed' = Accessed
    BY <2>1, <2>2 DEF Accessed
  <2> QED
    BY <1>1, <2>1, <2>3
<1>4. CASE Main \/ UNCHANGED vars
  <2>1. UNCHANGED <<phase, k, txn, pos, answers, rxne>>
    BY <1>4 DEF Main, MainStep, TISInit, spiVars, vars, hostVars
  <2>2. Accessed' = Accessed
    BY <2>1 DEF Accessed, Handled
  <2> QED
    BY <1>1, <2>1, <2>2
<1> QED
  BY <1>2, <1>3, <1>4

LEMMA WholeTransaction ==
  ASSUME TypeOK, HostTurn
  PROVE  Accessed = txn.len /\ txn.len \in 1..64
<1>1. pos = 4 + txn.len /\ rxne = FALSE /\ txn.len \in 1..64 /\ txn.rd \in BOOLEAN
  BY TxnTypes DEF HostTurn, Complete
<1>2. Handled = 4 + txn.len
  BY <1>1 DEF Handled
<1>3. Accessed = txn.len
  BY <1>1, <1>2 DEF Accessed
<1> QED
  BY <1>1, <1>3

(* Nothing submitted is taken back.                                        *)
LEMMA SentGrows ==
  ASSUME TypeOK, [Next]_vars
  PROVE  Sent <= Sent'
<1>1. k \in Nat
  BY DEF TypeOK, HostTypes
<1>2. CASE Isr \/ Main \/ HostClock \/ UNCHANGED vars
  <2>1. UNCHANGED <<phase, k, answers>> /\ Accessed <= Accessed'
    BY <1>2, WithinTransaction
  <2>2. Written => Written'
    <3>1. Accessed \in Nat /\ Accessed' \in Nat
      BY TypeStep, TypesNext, TxnTypes
    <3> QED
      BY <2>1, <3>1 DEF Written
  <2> QED
    BY <1>1, <2>1, <2>2 DEF Sent
<1>3. CASE HostTurn
  <2>1. \/ k' = k /\ (Written => phase' \in {"again", "poll", "fetch", "off"})
        \/ k' = k + 1
    <3>1. CASE HostProbe \/ HostReady \/ HostCheck \/ HostLoad
      BY <3>1 DEF HostProbe, HostReady, HostCheck, HostLoad, Begin, Written
    <3>2. CASE HostGo \/ HostPoll \/ HostRetry
      BY <3>2 DEF HostGo, HostPoll, HostRetry, Begin
    <3>3. CASE HostFetch
      BY <3>3 DEF HostFetch, Begin
    <3> QED
      BY <1>3, <3>1, <3>2, <3>3 DEF HostTurn
  <2>2. k' = k => (Written => Written')
    BY <2>1, <1>1 DEF Written
  <2> QED
    BY <1>1, <2>1, <2>2 DEF Sent
<1> QED
  BY <1>2, <1>3 DEF Next, Host

(* Main on the path of refusal: nothing is executed, and the first byte of *)
(* the buffer stays where it is.                                           *)
LEMMA MainRefusing ==
  ASSUME Refusing, Main
  PROVE  RefusingPc' /\ UNCHANGED <<fifo, fifo_fill, executed>>
<1>1. call.ret \in {"ChkValid", "ChkGo", "RspLoop"}
  BY DEF Refusing, TypeOK, MainTypes
<1>2. CASE TISInit
  <2>1. pc' \in InitLabels \cup {"ChkValid"}
    BY <1>2 DEF TISInit, Goto, InitLabels, InitIsRead, InitNbytes, InitLastbyte, InitAddress,
       InitAddrbytes, InitXfer, InitRspMax, InitClear, InitSts, InitReply
  <2> QED
    BY <1>2, <2>1 DEF TISInit, RefusingPc
<1>3. CASE MainStep
  <2>1. pc \in {"ChkValid", "ChkGo", "ReadSize"} \/ (Fixing /\ call.ret \in {"ChkGo", "ChkValid"})
          \/ pc \in InitLabels
    BY DEF Refusing, RefusingPc
  <2>2. FixLoad \/ FixStore \/ ChkValid \/ ChkGo \/ ReadSize
    BY <1>3, <2>1 DEF MainStep, Fixing, InitLabels, FixLoad, FixStore, ChkValid, ChkGo,
       ReadSize, Execute, ResetFill, SetMax, LoadGo, ClearGo, RspLoop, EndFill, EndMax, EndXfer
  <2>3. UNCHANGED <<fifo, fifo_fill, executed>>
    BY <2>2 DEF FixLoad, FixStore, ChkValid, ChkGo, ReadSize, fifoVars
  <2>4. CASE FixLoad \/ FixStore
    <3>1. call.ret \in {"ChkGo", "ChkValid"} /\ call' = call
      BY <2>1, <2>4 DEF FixLoad, FixStore, Fixing, InitLabels
    <3>2. pc' \in {"FixLoad", "FixStore", call.ret}
      BY <2>4 DEF FixLoad, FixStore, Goto
    <3> QED
      BY <2>3, <3>1, <3>2 DEF RefusingPc, Fixing
  <2>5. CASE ChkValid
    BY <2>3, <2>5 DEF ChkValid, CallFixSTS, Goto, RefusingPc, Fixing
  <2>6. CASE ChkGo
    BY <2>3, <2>6 DEF ChkGo, Goto, RefusingPc
  <2>7. CASE ReadSize
    <3>1. TooLarge
      BY DEF Refusing, TooLarge
    <3> QED
      BY <2>3, <2>7, <3>1 DEF ReadSize, Goto, RefusingPc, InitLabels
  <2> QED
    BY <2>2, <2>4, <2>5, <2>6, <2>7
<1> QED
  BY <1>2, <1>3 DEF Main

(* A byte that the handler writes to the buffer goes behind its first one. *)
LEMMA IsrRefusing ==
  ASSUME Refusing, Isr
  PROVE  fifo'[0] = fifo[0] /\ fifo_fill' # 0 /\ UNCHANGED mainVars
<1>1. fifo \in [0..BufSize - 1 -> ByteValue] /\ fifo_fill \in Nat /\ fifo_fill # 0
  BY DEF Refusing, TypeOK, RegisterTypes
<1>2. \A v : [fifo EXCEPT ![fifo_fill] = v][0] = fifo[0]
  BY <1>1
<1>3. UNCHANGED fifoVars \/ \E byte : AccessFifo(byte)
  BY DEF Isr, IsrTrailingByte, IsrHeader, IsrAddress, IsrPayload, AccessSts
<1>4. CASE UNCHANGED fifoVars
  BY <1>1, <1>4 DEF fifoVars, Isr
<1>5. CASE \E byte : AccessFifo(byte)
  <2>1. PICK byte : AccessFifo(byte)
    BY <1>5
  <2>2. fifo'[0] = fifo[0]
    BY <1>2, <2>1 DEF AccessFifo
  <2>3. fifo_fill' # 0
    BY <1>1, <2>1 DEF AccessFifo
  <2> QED
    BY <2>2, <2>3 DEF Isr
<1> QED
  BY <1>3, <1>4, <1>5

LEMMA RefusingStep ==
  ASSUME Refusing, [Next]_vars
  PROVE  /\ Refusing' /\ executed' = executed
         /\ Refused => Refused'
         /\ Submitting =>
              /\ UNCHANGED <<phase, k, answers>>
              /\ Refused' \/ Accessed' = Accessed
<1>1. TypeOK /\ TypeOK'
  BY TypeStep DEF Refusing
<1>2. executed' = executed /\ RefusingPc' /\ fifo'[0] = fifo[0] /\ fifo_fill' # 0
  <2>1. CASE Isr
    BY <2>1, IsrRefusing DEF Refusing, RefusingPc, Fixing, mainVars
  <2>2. CASE Main
    BY <2>2, MainRefusing DEF Refusing
  <2>3. CASE Host \/ UNCHANGED vars
    BY <2>3 DEF Host, HostClock, HostTurn, Refusing, RefusingPc, Fixing, mainVars, fifoVars, vars
  <2> QED
    BY <2>1, <2>2, <2>3 DEF Next
<1>3. Refused => Refused'
  <2>1. Sent <= Sent' /\ Sent \in Int /\ Sent' \in Int
    <3>1. k \in Nat
      BY <1>1 DEF TypeOK, HostTypes
    <3>2. Sent \in Int
      BY <3>1 DEF Sent
    <3> QED
      BY <1>1, <3>2, SentGrows, TypesNext
  <2>2. \A j \in Oversized : j \in Int
    BY HostAssumption, SizeAssumption
  <2>3. \A j \in Oversized : j <= Sent => j <= Sent'
    BY <2>1, <2>2
  <2> QED
    BY <1>1, <2>3, RefusedSent, RefusedSentNext
<1>4. ASSUME Submitting
      PROVE  UNCHANGED <<phase, k, answers>> /\ (Refused' \/ Accessed' = Accessed)
  <2>1. Isr \/ Main \/ HostClock \/ UNCHANGED vars
    BY <1>1, <1>4, WholeTransaction DEF Submitting, Next, Host
  <2>2. UNCHANGED <<phase, k, answers>> /\ Accessed <= Accessed'
    BY <1>1, <2>1, WithinTransaction
  <2>3. Accessed' > 0 => Refused'
    <3>1. ASSUME Accessed' > 0 PROVE k <= Sent'
      BY <1>1, <1>4, <2>2, <3>1 DEF Submitting, Sent, Written, TypeOK, HostTypes
    <3> QED
      BY <1>1, <1>4, <3>1, RefusedSentNext DEF Submitting
  <2>4. Accessed' \in Int
    BY <1>1, TypesNext
  <2>5. Accessed = 0
    BY <1>4 DEF Submitting
  <2> QED
    BY <2>2, <2>3, <2>4, <2>5
<1>5. Refused' \/ Submitting'
  BY <1>2, <1>3, <1>4 DEF Refusing, Submitting
<1>6. NeverExecutesOversized'
  BY <1>2 DEF Refusing, NeverExecutesOversized
<1> QED
  BY <1>1, <1>2, <1>3, <1>4, <1>5, <1>6 DEF Refusing

LEMMA NormalHolds ==
  ASSUME Normal
  PROVE  /\ FifoTracksHost /\ CommandIntact /\ ReadyIsIdle /\ AvailUntilRead
         /\ NeverExecutesOversized
<1>1. TypeOK /\ Transaction /\ Stages /\ k \in 1..NumCmds /\ NumCmds \in Nat
  BY SizeAssumption DEF Normal, FrameInv, TypeOK, HostTypes
<1>2. Unasked \/ Asked \/ Reading \/ Fetched
  BY <1>1, SomeStage
<1>3. phase = "load" => UnaskedInv /\ Idle
  <2>1. phase = "load" => UnaskedInv
    BY <1>1 DEF Stages, Unasked
  <2> QED
    BY <2>1 DEF UnaskedInv
<1>4. phase = "fetch" /\ off + Accessed < RspLen => ReadingInv
  BY <1>1 DEF Stages, Reading
<1>5. FifoTracksHost
  BY <1>3, <1>4 DEF FifoTracksHost, UnaskedInv, ReadingInv
<1>6. ReadyIsIdle
  BY <1>3 DEF ReadyIsIdle, UnaskedInv, AtRest, Idle, Fixing, Clear
<1>7. AvailUntilRead
  BY <1>4 DEF AvailUntilRead, ReadingInv
<1>8. CommandIntact
  <2> SUFFICES ASSUME pc = "Execute" PROVE Request = k /\ executed = Upto(k - 1)
    BY DEF CommandIntact, Upto
  <2>1. ~AtRest /\ ~Offering /\ ~Staging /\ Taking
    BY DEF AtRest, Idle, Ending, Closing, Offering, Staging, Fixing, Taking
  <2>2. AskedInv
    BY <1>1, <1>2, <2>1 DEF Stages, UnaskedInv, ReadingInv, FetchedInv
  <2>3. HasCommand /\ executed = Upto(k - 1)
    BY <2>1, <2>2 DEF AskedInv
  <2> QED
    BY <1>1, <2>3, RequestIsCommand
<1>9. NeverExecutesOversized
  <2>1. \/ executed = Upto(k - 1)
        \/ executed = Upto(k) /\ k \notin Oversized
    BY <1>1, <1>2 DEF Stages, UnaskedInv, AskedInv, ReadingInv, FetchedInv
  <2>2. \A n \in Nat : DOMAIN Upto(n) = 1..n /\ \A i \in 1..n : Upto(n)[i] = i
    BY DEF Upto
  <2>3. k \in Nat /\ k - 1 \in Nat /\ \A j \in 1..k - 1 : j \notin Oversized
    BY <1>1 DEF Normal
  <2>4. CASE executed = Upto(k - 1)
    BY <2>2, <2>3, <2>4 DEF NeverExecutesOversized
  <2>5. CASE executed = Upto(k) /\ k \notin Oversized
    <3>1. \A j \in 1..k : j \notin Oversized
      BY <2>3, <2>5
    <3> QED
      BY <2>2, <2>3, <2>5, <3>1 DEF NeverExecutesOversized
  <2> QED
    BY <2>1, <2>4, <2>5
<1> QED
  BY <1>5, <1>6, <1>7, <1>8, <1>9

(* The turn that submits an oversized command.                             *)
LEMMA SubmitRefusing ==
  ASSUME Normal, HostTurn, SubmitsOversized
  PROVE  Refusing'
<1>1. /\ TypeOK /\ Transaction /\ Stages /\ Locals
      /\ txn.len \in 1..64 /\ Accessed = txn.len /\ phase = "load"
      /\ off \in Nat /\ k \in 1..NumCmds /\ k \in Oversized
      /\ answers = Upto(k - 1)
  BY TurnKeeps DEF Normal, FrameInv, SubmitsOversized, HostLoad
<1>2. /\ UnaskedInv /\ Idle /\ executed = Upto(k - 1) /\ fifo_fill = off + Accessed
      /\ \A i \in 0..off + Accessed - 1 : fifo[i] = CmdByte(k, i)
  <2>1. UnaskedInv
    BY <1>1 DEF Stages, Unasked
  <2> QED
    BY <1>1, <2>1 DEF UnaskedInv
<1>3. fifo[0] = CmdByte(k, 0) /\ fifo_fill # 0
  <2>1. 0 \in 0..off + Accessed - 1
    BY <1>1
  <2>2. off + Accessed # 0
    BY <1>1
  <2> QED
    BY <1>2, <2>1, <2>2
<1>4. Begin("go", k, 0) /\ answers' = answers
  BY DEF SubmitsOversized, HostLoad
<1>5. /\ phase' = "go" /\ k' = k /\ pos' = 0 /\ rxne' = FALSE
      /\ UNCHANGED <<fifoVars, mainVars>>
  BY <1>4 DEF Begin, HostTurn, Complete, spiVars
<1>6. TypeOK'
  BY <1>1, HostTurnTypes
<1>7. RefusingPc'
  <2>1. RefusingPc
    BY <1>2 DEF RefusingPc, Idle, Fixing
  <2> QED
    BY <1>5, <2>1 DEF RefusingPc, Fixing, mainVars
<1>8. Accessed' = 0
  <2>1. Handled' = 0
    BY <1>5 DEF Handled
  <2> QED
    BY <2>1 DEF Accessed
<1>9. Submitting'
  BY <1>1, <1>2, <1>4, <1>5, <1>8 DEF Submitting, mainVars
<1>10. NeverExecutesOversized'
  <2>1. NeverExecutesOversized
    BY NormalHolds
  <2> QED
    BY <1>5, <2>1 DEF NeverExecutesOversized, mainVars
<1> QED
  BY <1>1, <1>3, <1>5, <1>6, <1>7, <1>9, <1>10 DEF Refusing, fifoVars

LEMMA RefusingHolds ==
  ASSUME Refusing
  PROVE  /\ CommandIntact /\ NeverExecutesOversized
         /\ Refused \/ (FifoTracksHost /\ ReadyIsIdle /\ AvailUntilRead)
<1>1. pc # "Execute"
  BY DEF Refusing, RefusingPc, Fixing, InitLabels
<1>2. ~Refused => phase = "go"
  BY DEF Refusing, Submitting
<1> QED
  BY <1>1, <1>2 DEF Refusing, CommandIntact, FifoTracksHost, ReadyIsIdle, AvailUntilRead

-----------------------------------------------------------------------------
LEMMA NormalInit ==
  ASSUME Init
  PROVE  Normal
<1>1. /\ pc = "ChkValid" /\ value = {} /\ reg = {} /\ idx = 0 /\ executed = <<>>
      /\ sts[0] = {VALID, READY} /\ fifo_fill = 0
      /\ phase = "probe" /\ k = 1 /\ off = 0 /\ pos = 0 /\ rxne = FALSE /\ answers = <<>>
      /\ txn.reg \notin {"STS", "FIFO"}
  BY DEF Init, Read
<1>2. FrameInv
  BY InitTypes, NoReinitInit, FrameInit DEF FrameInv
<1>3. Locals
  BY <1>1 DEF Locals, Fixing
<1>4. Transaction
  BY <1>1 DEF Transaction, Handled
<1>5. Replies
  BY <1>1 DEF Replies
<1>6. Upto(k - 1) = <<>>
  BY <1>1 DEF Upto
<1>7. Idle /\ Clear(GO) /\ Clear(AVAIL) /\ ~Offering /\ ~Closing
  BY <1>1 DEF Idle, Clear, Offering, Closing, Fixing, GO, AVAIL, VALID, READY
<1>8. UnaskedInv
  BY <1>1, <1>6, <1>7 DEF UnaskedInv, AtRest
<1>9. Stages
  BY <1>1, <1>8 DEF Stages, Asked, Reading, Fetched
<1> QED
  BY <1>1, <1>2, <1>3, <1>4, <1>5, <1>6, <1>9 DEF Normal

LEMMA NormalStep ==
  ASSUME Normal, WritesReady = TRUE, [Next]_vars, ~(HostTurn /\ SubmitsOversized)
  PROVE  Normal'
<1>1. CASE Isr
  BY <1>1, IsrNormal
<1>2. CASE Main
  BY <1>2, MainNormal
<1>3. CASE HostClock
  BY <1>3, ClockNormal
<1>4. CASE HostTurn
  BY <1>4, TurnNormal
<1>5. CASE UNCHANGED vars
  <2>1. UNCHANGED <<sts, fifoVars, mainVars, phase, k, off, pos, txn, rxne, tx, reply, answers,
                    frameVars>>
    BY <1>5 DEF vars, hostVars, spiVars
  <2>2. Handled' = Handled /\ Accessed' = Accessed
    BY <2>1 DEF Handled, Accessed
  <2>3. Stages'
    BY <2>1, <2>2, StagesKept DEF Normal
  <2>4. FrameInv'
    <3>1. TypeOK' /\ NoReinit'
      BY <2>1, TypeStep DEF Normal, FrameInv, NoReinit, mainVars
    <3>2. InFrame' /\ ReplyStaged'
      BY <2>1, QuietFrame DEF Normal, FrameInv, frameVars
    <3> QED
      BY <3>1, <3>2 DEF FrameInv
  <2>5. Locals' /\ Transaction'
    BY <2>1, <2>2 DEF Normal, Locals, Fixing, mainVars, Transaction, TxnOf, Complete, frameVars
  <2>6. Replies'
    BY <2>1 DEF Normal, Replies, Received, ReadyHolds, AvailHolds, Idle, Offering, Fixing, mainVars
  <2> QED
    BY <2>1, <2>3, <2>4, <2>5, <2>6 DEF Normal
<1> QED
  BY <1>1, <1>2, <1>3, <1>4, <1>5 DEF Next, Host

-----------------------------------------------------------------------------
(* The inductive invariant: the exchange runs as it should, or main keeps  *)
(* refusing the oversized command at the start of the buffer, whatever the *)
(* handler makes of the host's bytes while TIS_init resets the parser.     *)
THEOREM ExchangeInvariant ==
  ASSUME WritesReady = TRUE
  PROVE  Spec => []IInv
<1>1. Init => IInv
  BY NormalInit DEF IInv
<1>2. IInv /\ [Next]_vars => IInv'
  BY NormalStep, SubmitRefusing, RefusingStep DEF IInv
<1> QED
  BY <1>1, <1>2, PTL DEF Spec

LEMMA ExchangeHolds ==
  ASSUME IInv
  PROVE  /\ CommandIntact /\ NeverExecutesOversized
         /\ Refused \/ (FifoTracksHost /\ ReadyIsIdle /\ AvailUntilRead)
BY NormalHolds, RefusingHolds DEF IInv

(* Whatever the host sends and however often it repeats its tpmGo, a       *)
(* command that does not fit the buffer is never executed (main.c:102),    *)
(* although TIS_init resets the parser store by store in the middle of the *)
(* host's byte stream (tis.c:15-25).                                       *)
THEOREM OversizedNeverExecuted ==
  ASSUME WritesReady = TRUE
  PROVE  Spec => []NeverExecutesOversized
<1>1. IInv => NeverExecutesOversized
  BY ExchangeHolds
<1> QED
  BY <1>1, ExchangeInvariant, PTL

(* Until a command is refused, the buffer pointer fifo_fill is where the   *)
(* host is in its command or response, whatever main does in between.      *)
THEOREM FifoFollowsHost ==
  ASSUME WritesReady = TRUE
  PROVE  Spec => [](Refused \/ FifoTracksHost)
<1>1. IInv => Refused \/ FifoTracksHost
  BY ExchangeHolds
<1> QED
  BY <1>1, ExchangeInvariant, PTL

(* What ExecuteCommand runs is the command the host submitted, whole, and  *)
(* no command is run twice, however late main notices a repeated tpmGo.    *)
THEOREM CommandsIntact ==
  ASSUME WritesReady = TRUE
  PROVE  Spec => []CommandIntact
<1>1. IInv => CommandIntact
  BY ExchangeHolds
<1> QED
  BY <1>1, ExchangeInvariant, PTL

(* Until a command is refused, the commandReady that the host read is      *)
(* true: main polls, and no tpmGo of the last command is left in the       *)
(* register or on its way back to it.                                      *)
THEOREM ReadyMeansIdle ==
  ASSUME WritesReady = TRUE
  PROVE  Spec => [](Refused \/ ReadyIsIdle)
<1>1. IInv => Refused \/ ReadyIsIdle
  BY ExchangeHolds
<1> QED
  BY <1>1, ExchangeInvariant, PTL

(* Until a command is refused, dataAvail, once the host has seen it, stays *)
(* up until the last byte of the response is read, although fixSTS         *)
(* rewrites the register meanwhile.                                        *)
THEOREM DataStaysAvailable ==
  ASSUME WritesReady = TRUE
  PROVE  Spec => [](Refused \/ AvailUntilRead)
<1>1. IInv => Refused \/ AvailUntilRead
  BY ExchangeHolds
<1> QED
  BY <1>1, ExchangeInvariant, PTL

-----------------------------------------------------------------------------
(* The refinement of TpmService, one kind of step at a time.               *)

LEMMA IsrService ==
  ASSUME Normal, Isr
  PROVE  [Service!Next]_Service!vars
<1>1. UNCHANGED <<phase, k, executed, answers>> /\ k \in 1..NumCmds /\ NumCmds \in Nat
  BY SizeAssumption DEF Isr, hostVars, mainVars, Normal, FrameInv, TypeOK, HostTypes
<1>2. CASE Written' <=> Written
  BY <1>1, <1>2, SubmittedUpto DEF Sent, Service!vars
<1>3. CASE ~(Written' <=> Written)
  <2>1. Accessed \in Nat /\ (Accessed' = Accessed \/ Accessed' = Accessed + 1)
    BY IsrEffect, TxnTypes DEF Normal, FrameInv
  <2>2. phase = "go" /\ ~Written /\ Written'
    BY <1>1, <1>3, <2>1 DEF Written
  <2>3. answers = Upto(k - 1) /\ Submitted = Upto(k - 1) /\ Submitted' = Upto(k)
    BY <1>1, <2>2, SubmittedUpto DEF Sent, Normal
  <2>4. Upto(k) = Append(Upto(k - 1), Len(Upto(k - 1)) + 1) /\ Len(Upto(k - 1)) < NumCmds
    BY <1>1 DEF Upto
  <2>5. Service!Submit
    BY <1>1, <2>3, <2>4 DEF Service!Submit
  <2> QED
    BY <2>5 DEF Service!Next
<1> QED
  BY <1>2, <1>3

LEMMA MainService ==
  ASSUME Normal, Main
  PROVE  [Service!Next]_Service!vars
<1>1. /\ MainStep /\ UNCHANGED <<phase, k, answers>> /\ Accessed' = Accessed
      /\ k \in 1..NumCmds /\ NumCmds \in Nat
  BY MainKeeps, SizeAssumption DEF hostVars, Normal, FrameInv, TypeOK, HostTypes
<1>2. Submitted' = Submitted
  BY <1>1, SubmittedUpto DEF Sent, Written
<1>3. CASE executed' = executed
  BY <1>1, <1>2, <1>3 DEF Service!vars
<1>4. CASE Execute
  <2>1. CommandIntact /\ pc = "Execute"
    BY <1>4, NormalHolds DEF Execute
  <2>2. Request = k /\ executed = Upto(k - 1)
    BY <2>1 DEF CommandIntact, Upto
  <2>3. Asked
    <3>1. ~AtRest /\ ~Offering
      BY <2>1 DEF AtRest, Idle, Ending, Closing, Offering, Fixing
    <3>2. Unasked \/ Asked \/ Reading \/ Fetched
      BY SomeStage DEF Normal, FrameInv
    <3> QED
      BY <3>1, <3>2 DEF Normal, Stages, UnaskedInv, ReadingInv, FetchedInv
  <2>4. Submitted = Upto(k)
    BY <2>3, SubmittedUpto DEF Sent, Asked, Written
  <2>5. /\ Len(Upto(k)) = k /\ Len(Upto(k - 1)) = k - 1 /\ Upto(k)[k] = k
    BY <1>1 DEF Upto
  <2>6. Service!Execute
    <3>1. executed' = Append(executed, k)
      BY <1>4, <2>2 DEF Execute
    <3>2. Len(executed) + 1 = k /\ Len(executed) < Len(Submitted)
      BY <1>1, <2>2, <2>4, <2>5
    <3> QED
      BY <1>1, <1>2, <2>4, <2>5, <3>1, <3>2 DEF Service!Execute
  <2> QED
    BY <2>6 DEF Service!Next
<1> QED
  BY <1>1, <1>3, <1>4 DEF MainStep, FixLoad, FixStore, ChkValid, ChkGo, ReadSize, ResetFill,
     SetMax, LoadGo, ClearGo, RspLoop, EndFill, EndMax, EndXfer

LEMMA HostService ==
  ASSUME Normal, WritesReady = TRUE, Host
  PROVE  [Service!Next]_Service!vars
<1>1. executed' = executed /\ k \in 1..NumCmds /\ NumCmds \in Nat
  BY SizeAssumption DEF Host, HostClock, HostTurn, mainVars, Normal, FrameInv, TypeOK, HostTypes
<1>2. CASE HostClock
  <2>1. UNCHANGED <<phase, k, answers>> /\ Accessed' = Accessed
    <3>1. rxne = FALSE /\ pos \in Nat
      BY <1>2, TxnTypes DEF HostClock, Normal, FrameInv, TypeOK, HostTypes
    <3> QED
      BY <1>2, <3>1 DEF HostClock, Accessed, Handled
  <2>2. Submitted' = Submitted
    BY <2>1, SubmittedUpto DEF Sent, Written
  <2> QED
    BY <1>1, <2>1, <2>2 DEF Service!vars
<1>3. CASE HostTurn /\ ~HostFetch
  <2>1. answers' = answers /\ k' = k
    BY <1>3 DEF HostTurn, HostProbe, HostReady, HostCheck, HostLoad, HostGo, HostPoll,
       HostRetry, Begin
  <2>2. Accessed = txn.len /\ txn.len \in 1..64 /\ (pos' = 0 => Accessed' = 0)
    BY <1>3, TurnKeeps
  <2>3. Written' <=> Written
    <3>1. CASE HostProbe \/ HostReady \/ HostCheck \/ HostLoad
      <4>1. phase \in {"probe", "ready", "check", "load"}
        BY <3>1 DEF HostProbe, HostReady, HostCheck, HostLoad
      <4>2. phase' \in {"ready", "check", "load", "go"} /\ pos' = 0
        BY <3>1 DEF HostProbe, HostReady, HostCheck, HostLoad, Begin, FirstPhase
      <4> QED
        BY <2>2, <4>1, <4>2 DEF Written
    <3>2. CASE HostGo \/ HostPoll \/ HostRetry
      <4>1. Written
        BY <2>2, <3>2 DEF HostGo, HostPoll, HostRetry, Written
      <4>2. Written'
        BY <3>2 DEF HostGo, HostPoll, HostRetry, Begin, Written
      <4> QED
        BY <4>1, <4>2
    <3> QED
      BY <1>3, <3>1, <3>2 DEF HostTurn
  <2>4. Submitted' = Submitted
    BY <2>1, <2>3, SubmittedUpto DEF Sent
  <2> QED
    BY <1>1, <2>1, <2>4 DEF Service!vars
<1>4. CASE HostTurn /\ HostFetch
  <2>1. Submitted = Upto(k) /\ answers = Upto(k - 1)
    BY <1>4, SubmittedUpto DEF Sent, HostFetch, Written, Normal
  <2>2. CASE answers' = answers /\ k' = k /\ phase' = "fetch"
    <3>1. Submitted' = Submitted
      BY <2>1, <2>2, SubmittedUpto DEF Sent, Written
    <3> QED
      BY <1>1, <2>2, <3>1 DEF Service!vars
  <2>3. CASE /\ answers' = Upto(k) /\ executed = Upto(k)
             /\ \/ phase' = "off" /\ k' = k
                \/ phase' = "ready" /\ k' = k + 1
    <3>1. Submitted' = Upto(k)
      <4>1. k + 1 - 1 = k
        BY <1>1
      <4>2. CASE phase' = "off" /\ k' = k
        BY <4>2, SubmittedUpto DEF Sent, Written
      <4>3. CASE phase' = "ready" /\ k' = k + 1
        <5>1. ~Written'
          BY <4>3 DEF Written
        <5>2. k' - 1 = k
          <6>1. \A x : x = k + 1 => x - 1 = k
            BY <1>1
          <6> QED
            BY <4>3, <6>1
        <5> QED
          BY <5>1, <5>2, SubmittedUpto DEF Sent
      <4> QED
        BY <2>3, <4>2, <4>3
    <3>2. /\ Len(Upto(k)) = k /\ Len(Upto(k - 1)) = k - 1
          /\ Upto(k) = Append(Upto(k - 1), Upto(k)[Len(Upto(k - 1)) + 1])
      BY <1>1 DEF Upto
    <3>3. Service!Answer
      BY <1>1, <2>1, <2>3, <3>1, <3>2 DEF Service!Answer
    <3> QED
      BY <3>3 DEF Service!Next
  <2> QED
    BY <1>4, <2>2, <2>3, TurnFetch
<1> QED
  BY <1>2, <1>3, <1>4 DEF Host

(* A refused command counts as submitted; after that nothing is executed.  *)
LEMMA RefusingService ==
  ASSUME Refusing, [Next]_vars
  PROVE  [Service!Next \/ (Refused /\ UNCHANGED executed)]_Service!vars
<1>1. executed' = executed
  BY RefusingStep
<1>2. CASE Refused
  BY <1>1, <1>2
<1>3. CASE Submitting /\ ~Refused
  <2>1. UNCHANGED <<phase, k, answers>> /\ (Refused' \/ Accessed' = Accessed)
    BY <1>3, RefusingStep
  <2>2. k \in 1..NumCmds /\ NumCmds \in Nat /\ executed = Upto(k - 1) /\ answers = Upto(k - 1)
    BY <1>3, SizeAssumption DEF Refusing, TypeOK, HostTypes, Submitting
  <2>3. Submitted = Upto(k - 1)
    BY <1>3, SubmittedUpto DEF Sent, Submitting, Written
  <2>4. CASE Sent' = k - 1
    <3>1. Submitted' = Submitted
      BY <2>3, <2>4, SubmittedUpto
    <3> QED
      BY <1>1, <2>1, <3>1 DEF Service!vars
  <2>5. CASE Sent' # k - 1
    <3>1. Submitted' = Upto(k)
      BY <2>1, <2>5, SubmittedUpto DEF Sent
    <3>2. Upto(k) = Append(Upto(k - 1), Len(Upto(k - 1)) + 1) /\ Len(Upto(k - 1)) < NumCmds
      BY <2>2 DEF Upto
    <3>3. Service!Submit
      BY <1>1, <2>1, <2>2, <2>3, <3>1, <3>2 DEF Service!Submit
    <3> QED
      BY <3>3 DEF Service!Next
  <2> QED
    BY <2>4, <2>5
<1> QED
  BY <1>2, <1>3 DEF Refusing

(* The firmware, behind its registers and its interrupt handler, is a TPM  *)
(* that takes one command at a time, executes each one once and in order,  *)
(* and gives the host the answer to the command it submitted, also when    *)
(* the host repeats tpmGo writes that were not lost.  From the moment a    *)
(* command is refused nothing is executed any more; what the host then     *)
(* takes for an answer is not said.                                        *)
THEOREM ServiceIsSafe ==
  ASSUME WritesReady = TRUE
  PROVE  Spec => ServiceSafety
<1>1. Init => Service!Init
  <2> SUFFICES ASSUME Init PROVE Service!Init
    OBVIOUS
  <2>1. phase = "probe" /\ k = 1 /\ executed = <<>> /\ answers = <<>>
    BY DEF Init
  <2>2. Submitted = <<>>
    BY <2>1, SubmittedUpto DEF Sent, Written, Upto
  <2> QED
    BY <2>1, <2>2 DEF Service!Init
<1>2. IInv /\ [Next]_vars => [Service!Next \/ (Refused /\ UNCHANGED executed)]_Service!vars
  <2> SUFFICES ASSUME Normal, [Next]_vars PROVE [Service!Next]_Service!vars
    BY RefusingService DEF IInv
  <2>1. CASE UNCHANGED vars
    <3>1. UNCHANGED <<phase, k, executed, answers>> /\ Accessed' = Accessed
      BY <2>1 DEF vars, hostVars, mainVars, spiVars, Accessed, Handled
    <3>2. Submitted' = Submitted
      BY <3>1, SubmittedUpto DEF Sent, Written
    <3> QED
      BY <3>1, <3>2 DEF Service!vars
  <2> QED
    BY <2>1, IsrService, MainService, HostService DEF Next
<1> QED
  BY <1>1, <1>2, ExchangeInvariant, PTL DEF Spec, ServiceSafety
=============================================================================
