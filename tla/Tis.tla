--------------------------------- MODULE Tis ---------------------------------
(***************************************************************************)
(* The TPM Interface Specification (TIS) front end of the HSM firmware:    *)
(* the SPI receive interrupt handler spi1_isr, the polling loop of main    *)
(* and the helper fixSTS they race through, composed with the SPI slave's  *)
(* queues and a host that drives the TIS registers.                        *)
(*                                                                         *)
(* A byte VALUE is a set of integers.  A header, address or status byte is *)
(* the set of its one bits (0..7); a byte of a command or of a response is *)
(* a singleton whose element is outside 0..7, and the byte 0x00 is the     *)
(* empty set.  With this reading | is \cup, & ~ is \, and bytesToU32 is a  *)
(* shifted union.                                                          *)
(*                                                                         *)
(* The handler runs with interrupts disabled, so it is one atomic action;  *)
(* every access that main makes to the shared struct g_TIS is an action of *)
(* its own, the single stores of TIS_init and of the memset in it          *)
(* included, and the handler may run between any two of them.              *)
(***************************************************************************)
EXTENDS Integers, Sequences

CONSTANTS
  CmdLen,      \* bytes of a command
  RspLen,      \* bytes of a response
  Chunk,       \* the most payload bytes the host puts in one transaction
  BufSize,     \* bytes of the command/response buffer (TPM_MAX_RESPONSE)
  NumCmds,     \* commands the host sends before it stops
  Oversized,   \* commands whose size field exceeds the buffer
  StsWrite,    \* payload bytes of a host write to the status register
  StsRead,     \* payload bytes of a host read of the status register
  WritesReady, \* does the host write commandReady before each command?
  MaxRetries,  \* times the host repeats a tpmGo that seems to be lost
  MaxPolls     \* times it repeats a status read after a tpmGo, 0: no limit

ASSUME SizeAssumption ==
  /\ Chunk \in 1..64
  /\ CmdLen \in Nat \ {0}
  /\ RspLen \in Nat \ {0}
  /\ BufSize \in Nat
  /\ CmdLen <= BufSize /\ RspLen <= BufSize
  /\ NumCmds \in Nat \ {0}

ASSUME HostAssumption ==
  /\ Oversized \subseteq 1..NumCmds
  /\ StsWrite \in 1..4
  /\ StsRead \in 1..4
  /\ WritesReady \in BOOLEAN
  /\ MaxRetries \in Nat /\ MaxPolls \in Nat

-----------------------------------------------------------------------------
(* Bits of the status register: tis.h lines 65-77 and 92-96.               *)

SELFTEST == 2
EXPECT   == 3
AVAIL    == 4
GO       == 5
READY    == 6
VALID    == 7
BURST    == 8..15     \* burstCount, set to 0xff by main

Zero == {}

(* The registers that the handler's switch knows.                          *)
Known == {"ACCESS", "STS", "FIFO", "VID", "RID"}

(* The three bytes of a register's address, high byte first: 0xD4 and the  *)
(* offset.                                                                 *)
AddressByte(r, n) ==
  CASE n = 1 -> {2, 4, 6, 7}
    [] n = 2 -> IF r \in {"VID", "RID"} THEN 0..3 ELSE Zero
    [] OTHER -> CASE r = "STS" -> {3, 4} [] r = "FIFO" -> {2, 5} [] r = "RID" -> {2}
                  [] OTHER -> Zero

(* (bits << 8) | byte in 32 bits.                                          *)
Shifted(bits, byte) == {i \in 8..31 : i - 8 \in bits} \cup byte

(* What shifting in the first n bytes of r's address makes of 0.           *)
AddressAfter(r, n) ==
  LET one == Shifted({}, AddressByte(r, 1))
      two == Shifted(one, AddressByte(r, 2))
  IN CASE n = 0 -> {} [] n = 1 -> one [] n = 2 -> two
       [] OTHER -> Shifted(two, AddressByte(r, 3))

AddressOf == [r \in Known |-> AddressAfter(r, 3)]

(* The register that the switch finds at an address, "NONE" in its default *)
(* case.                                                                   *)
RegisterAt(bits) ==
  IF \E r \in Known : bits = AddressOf[r]
  THEN CHOOSE r \in Known : bits = AddressOf[r]
  ELSE "NONE"

(* Byte i of command j and of the response to it; response 0 is the error  *)
(* response to a request that is no command of the host.                   *)
Stride == 1000
CmdByte(j, i) == {j * Stride + 10 + i}
RspByte(j, i) == {-(j * Stride + 10 + i)}

-----------------------------------------------------------------------------
VARIABLES
  \* the shared struct g_TIS
  sts, fifo, fifo_fill, fifo_rsp_max,
  isRead, nbytes, addrbytes, lastbyte, address, transfered_bytes,
  \* main and fixSTS
  pc,       \* where main is
  value,    \* the static variable of fixSTS
  reg,      \* bits main has loaded from sts and not yet used
  idx,      \* index of the status byte fixSTS loads or stores next
  call,     \* arguments of the running call of fixSTS and where it returns
  executed, \* history: commands ExecuteCommand has run, 0 for garbage
  \* the SPI slave
  rxne,     \* has the byte last clocked not been handled yet?
  tx,       \* bytes waiting to be shifted out to the host
  \* the host
  phase, k,
  off,      \* bytes of command or response done; status reads repeated
  txn,      \* the transaction in progress
  pos,      \* bytes of it clocked so far
  retries,  \* times tpmGo has been repeated
  reply,    \* payload bytes read in this phase
  answers   \* history: decoded responses, 0 for garbage

frameVars == <<isRead, nbytes, addrbytes, lastbyte, address, transfered_bytes>>
fifoVars  == <<fifo, fifo_fill, fifo_rsp_max>>
mainVars  == <<pc, value, reg, idx, call, executed>>
spiVars   == <<rxne, tx>>
hostVars  == <<phase, k, off, txn, pos, retries, reply, answers>>
vars == <<sts, fifoVars, frameVars, mainVars, spiVars, hostVars>>

-----------------------------------------------------------------------------
(* The host's transactions: one header byte, three address bytes, payload. *)

Write(r, vals) == [rd |-> FALSE, len |-> Len(vals), reg |-> r, vals |-> vals]
Read(r, n) == [rd |-> TRUE, len |-> n, reg |-> r, vals |-> [i \in 1..n |-> Zero]]

StatusWrite(bits) == Write("STS", [i \in 1..StsWrite |-> IF i = 1 THEN bits ELSE Zero])

PieceLen(total, o) == IF total - o < Chunk THEN total - o ELSE Chunk

(* What the host sends in phase ph for command j, o payload bytes in.      *)
TxnOf(ph, j, o) ==
  CASE ph = "ready" -> StatusWrite({READY})
    [] ph \in {"check", "poll"} -> Read("STS", StsRead)
    [] ph = "load" ->
         Write("FIFO", [i \in 1..PieceLen(CmdLen, o) |-> CmdByte(j, o + i - 1)])
    [] ph \in {"go", "again"} -> StatusWrite({GO})
    [] ph = "fetch" -> Read("FIFO", PieceLen(RspLen, o))

(* The header byte of a transaction: direction, and length less one.       *)
Header(rd, len) ==
  (IF rd THEN {7} ELSE {}) \cup {b \in 0..5 : ((len - 1) \div 2^b) % 2 = 1}

(* (byte & 0x3f) + 1: the length the handler reads from a header byte.     *)
LengthOf(byte) ==
  LET Worth(b, w) == IF b \in byte THEN w ELSE 0
  IN 1 + Worth(0, 1) + Worth(1, 2) + Worth(2, 4) + Worth(3, 8) + Worth(4, 16)
       + Worth(5, 32)

(* The byte clocked p-th.  Once TIS_init has reset the parser, the handler *)
(* may take any byte for a header; a byte of a command, whose own bits are *)
(* not modelled, then reads as a write of length 1.                        *)
ByteAt(t, p) ==
  CASE p = 1 -> Header(t.rd, t.len)
    [] p \in 2..4 -> AddressByte(t.reg, p - 1)
    [] OTHER -> t.vals[p - 4]

FirstPhase == IF WritesReady THEN "ready" ELSE "check"

-----------------------------------------------------------------------------
(* Initial state: what the first call of TIS_init leaves of the zeroed     *)
(* g_TIS.  The host starts by probing one of the identification registers. *)
Init ==
  /\ sts = [i \in 0..3 |-> IF i = 0 THEN {VALID, READY} ELSE Zero]
  /\ fifo = [i \in 0..BufSize - 1 |-> Zero]
  /\ fifo_fill = 0 /\ fifo_rsp_max = 0
  /\ isRead = FALSE /\ nbytes = 0 /\ addrbytes = 0
  /\ lastbyte = FALSE /\ address = {} /\ transfered_bytes = 0
  /\ pc = "ChkValid" /\ value = {} /\ reg = {} /\ idx = 0
  /\ call = [set |-> {}, unset |-> {}, ret |-> "ChkValid"]
  /\ executed = <<>>
  /\ rxne = FALSE /\ tx = <<Zero>>
  /\ phase = "probe" /\ k = 1 /\ off = 0 /\ pos = 0 /\ retries = 0
  /\ \E r \in {"ACCESS", "VID", "RID"} : txn = Read(r, StsRead)
  /\ reply = <<>> /\ answers = <<>>

-----------------------------------------------------------------------------
(* The handler.                                                            *)

Push(v) == tx' = Append(tx, v)

(* Does the byte trail a read?  The last payload byte of a read is shifted *)
(* out by one more byte of the host, which is no header.                   *)
ForgetsTrailer == FALSE
IsTrailer == lastbyte /\ isRead

(* nbytes = 0, the byte that trails a read: the handler stays idle.        *)
IsrTrailingByte(byte) ==
  /\ nbytes = 0 /\ IsTrailer
  /\ lastbyte' = FALSE
  /\ isRead' = (7 \in byte)
  /\ address' = {} /\ addrbytes' = 0 /\ transfered_bytes' = 0
  /\ Push(Zero)
  /\ UNCHANGED <<nbytes, sts, fifoVars>>

(* nbytes = 0, the first byte of a transaction: direction and length.      *)
IsrHeader(byte) ==
  /\ nbytes = 0 /\ ~IsTrailer
  /\ nbytes' = LengthOf(byte)
  /\ isRead' = (7 \in byte)
  /\ address' = {} /\ addrbytes' = 0 /\ transfered_bytes' = 0
  /\ Push(Zero)
  /\ UNCHANGED <<lastbyte, sts, fifoVars>>

(* The first two address bytes are answered with 0; the third one of a     *)
(* write is not answered, the handler returns without staging a byte.      *)
AnswersEveryAddress(n) == TRUE
AnswersAddress(n) == n < 3

IsrAddress(byte) ==
  /\ nbytes # 0 /\ addrbytes < 3
  /\ addrbytes < 2 \/ ~isRead
  /\ address' = Shifted(address, byte)
  /\ addrbytes' = addrbytes + 1
  /\ IF AnswersAddress(addrbytes + 1) THEN Push(Zero) ELSE UNCHANGED tx
  /\ UNCHANGED <<isRead, nbytes, lastbyte, transfered_bytes, sts, fifoVars>>

(* read_write_spi on the byte of the status register at index i, then the  *)
(* write's clearing of stsValid.  An index past 3 falls into g_TIS.dummy.  *)
AccessSts(byte, i) ==
  /\ IF isRead
     THEN /\ Push(IF i \in 0..3 THEN sts[i] ELSE Zero)
          /\ UNCHANGED sts
     ELSE /\ Push(Zero)
          /\ sts' = [[sts EXCEPT ![i] = byte] EXCEPT ![0] = @ \ {VALID}]
  /\ UNCHANGED fifoVars

(* Has the response been read once n bytes of the buffer are accessed?     *)
AllReadTooEarly(n) == n + 1 >= fifo_rsp_max /\ fifo_rsp_max > 0
AllRead(n) == n >= fifo_rsp_max /\ fifo_rsp_max > 0

(* read_write_spi on the byte of the buffer at fifo_fill.  dataAvail drops *)
(* with the last byte of a response.                                       *)
AccessFifo(byte) ==
  /\ IF isRead
     THEN /\ Push(IF fifo_fill < BufSize THEN fifo[fifo_fill] ELSE Zero)
          /\ UNCHANGED fifo
     ELSE /\ Push(Zero)
          /\ fifo' = [fifo EXCEPT ![fifo_fill] = byte]
  /\ fifo_fill' = fifo_fill + 1
  /\ sts' = IF AllRead(fifo_fill + 1) THEN [sts EXCEPT ![0] = @ \ {AVAIL}] ELSE sts
  /\ UNCHANGED fifo_rsp_max

(* Identification registers answer with constants: a tag per register, and *)
(* per index of the three bytes of vid.                                    *)
Identity(r, i) ==
  CASE r = "ACCESS" -> {5, 7}
    [] r = "VID"    -> {-(i + 1)}
    [] r = "RID"    -> {0, 2, 4, 6}
    [] OTHER        -> Zero

LeavesOneLess(n) == n - 2
Left(n) == n - 1

(* A payload byte, or the third address byte of a read, which is answered  *)
(* with the first payload byte.  On the last one transfered_bytes restarts *)
(* before the register is accessed.                                        *)
IsrPayload(byte) ==
  /\ nbytes # 0
  /\ addrbytes = 3 \/ (addrbytes = 2 /\ isRead)
  /\ address' = IF addrbytes = 3 THEN address ELSE Shifted(address, byte)
  /\ LET r    == RegisterAt(address')
         last == Left(nbytes) = 0
         i    == IF last THEN 0 ELSE transfered_bytes
     IN /\ nbytes' = Left(nbytes)
        /\ lastbyte' = IF last /\ isRead THEN TRUE ELSE lastbyte
        /\ addrbytes' = IF last THEN 0 ELSE 3
        /\ transfered_bytes' = i + 1
        /\ CASE r = "STS"  -> AccessSts(byte, i)
             [] r = "FIFO" -> AccessFifo(byte)
             [] OTHER      -> Push(Identity(r, i)) /\ UNCHANGED <<sts, fifoVars>>
  /\ UNCHANGED isRead

(* irqCallback: the byte the host clocked last reaches the handler.        *)
Isr ==
  /\ rxne
  /\ rxne' = FALSE
  /\ LET byte == ByteAt(txn, pos)
     IN \/ IsrTrailingByte(byte)
        \/ IsrHeader(byte)
        \/ IsrAddress(byte)
        \/ IsrPayload(byte)
  /\ UNCHANGED <<mainVars, hostVars>>

-----------------------------------------------------------------------------
(* main and fixSTS.                                                        *)

Goto(l) == pc' = l

CallFixSTS(set, unset, ret) ==
  /\ call' = [set |-> set, unset |-> unset, ret |-> ret]
  /\ idx' = 0 /\ reg' = {}
  /\ Goto("FixLoad")

(* The static value remembers every bit ever loaded until it is unset.     *)
ForgetsLoaded(loaded) == ((value \cup call.set) \ call.unset) \cup {VALID}
Remembered(loaded) == ((value \cup loaded \cup call.set) \ call.unset) \cup {VALID}

(* bytesToU32 loads the four status bytes one after the other; after the   *)
(* last one the static value is updated.                                   *)
FixLoad ==
  /\ pc = "FixLoad"
  /\ LET loaded == reg \cup {8 * idx + b : b \in sts[idx] \cap 0..7}
     IN IF idx < 3
        THEN /\ idx' = idx + 1 /\ reg' = loaded
             /\ UNCHANGED <<pc, value>>
        ELSE /\ idx' = 0 /\ reg' = {}
             /\ value' = Remembered(loaded)
             /\ Goto("FixStore")
  /\ UNCHANGED <<sts, fifoVars, call, executed, transfered_bytes>>

(* u32ToBytes stores the four status bytes one after the other.            *)
FixStore ==
  /\ pc = "FixStore"
  /\ sts' = [sts EXCEPT ![idx] = {b \in 0..7 : 8 * idx + b \in value \cup {VALID}}]
  /\ IF idx < 3
     THEN idx' = idx + 1 /\ UNCHANGED pc
     ELSE idx' = 0 /\ Goto(call.ret)
  /\ UNCHANGED <<fifoVars, value, reg, call, executed, transfered_bytes>>

(* Top of the loop: a cleared stsValid means the host wrote the status.    *)
ChkValid ==
  /\ pc = "ChkValid"
  /\ IF VALID \in sts[0]
     THEN Goto("ChkGo") /\ UNCHANGED <<call, idx, reg>>
     ELSE CallFixSTS({READY, SELFTEST} \cup BURST, {}, "ChkGo")
  /\ UNCHANGED <<sts, fifoVars, value, executed, transfered_bytes>>

ChkGo ==
  /\ pc = "ChkGo"
  /\ Goto(IF GO \in sts[0] THEN "ReadSize" ELSE "ChkValid")
  /\ UNCHANGED <<sts, fifoVars, value, reg, idx, call, executed, transfered_bytes>>

(* requestSize is read from the header at the start of the buffer.         *)
NeverTooLarge == FALSE
TooLarge == \E j \in Oversized : fifo[0] = CmdByte(j, 0)

ReadSize ==
  /\ pc = "ReadSize"
  /\ Goto(IF TooLarge THEN "InitIsRead" ELSE "Execute")
  /\ UNCHANGED <<sts, fifoVars, value, reg, idx, call, executed, transfered_bytes>>

(* The command at the start of the buffer, 0 if there is none.             *)
Request ==
  IF \E j \in 1..NumCmds : \A i \in 0..CmdLen - 1 : fifo[i] = CmdByte(j, i)
  THEN CHOOSE j \in 1..NumCmds : \A i \in 0..CmdLen - 1 : fifo[i] = CmdByte(j, i)
  ELSE 0

(* ExecuteCommand of the TPM library, which answers in the same buffer.    *)
Execute ==
  /\ pc = "Execute"
  /\ executed' = Append(executed, Request)
  /\ fifo' = [i \in 0..BufSize - 1 |-> IF i < RspLen THEN RspByte(Request, i) ELSE fifo[i]]
  /\ Goto("ResetFill")
  /\ UNCHANGED <<sts, fifo_fill, fifo_rsp_max, value, reg, idx, call, transfered_bytes>>

ResetFill ==
  /\ pc = "ResetFill"
  /\ fifo_fill' = 0
  /\ Goto("SetMax")
  /\ UNCHANGED <<sts, fifo, fifo_rsp_max, value, reg, idx, call, executed, transfered_bytes>>

MissesLastByte == RspLen - 1
ResponseSize == RspLen

SetMax ==
  /\ pc = "SetMax"
  /\ fifo_rsp_max' = ResponseSize
  /\ Goto("LoadGo")
  /\ UNCHANGED <<sts, fifo, fifo_fill, value, reg, idx, call, executed, transfered_bytes>>

(* sts[0] &= ~TPM_GO is a load and a store.                                *)
LoadGo ==
  /\ pc = "LoadGo"
  /\ reg' = sts[0] \ {GO}
  /\ Goto("ClearGo")
  /\ UNCHANGED <<sts, fifoVars, value, idx, call, executed, transfered_bytes>>

ClearGo ==
  /\ pc = "ClearGo"
  /\ sts' = [sts EXCEPT ![0] = reg]
  /\ reg' = {}
  /\ Goto("RspLoop")
  /\ UNCHANGED <<fifoVars, value, idx, call, executed, transfered_bytes>>

(* The loop that offers the response until the host has read all of it.    *)
RspLoop ==
  /\ pc = "RspLoop"
  /\ IF fifo_fill < fifo_rsp_max
     THEN CallFixSTS({AVAIL}, {}, "RspLoop")
     ELSE Goto("EndFill") /\ UNCHANGED <<call, idx, reg>>
  /\ UNCHANGED <<sts, fifoVars, value, executed, transfered_bytes>>

KeepsFill == fifo_fill
RestartFill == 0

EndFill ==
  /\ pc = "EndFill"
  /\ fifo_fill' = RestartFill
  /\ Goto("EndMax")
  /\ UNCHANGED <<sts, fifo, fifo_rsp_max, value, reg, idx, call, executed, transfered_bytes>>

EndMax ==
  /\ pc = "EndMax"
  /\ fifo_rsp_max' = BufSize
  /\ Goto("EndXfer")
  /\ UNCHANGED <<sts, fifo, fifo_fill, value, reg, idx, call, executed, transfered_bytes>>

(* The bits that the call of fixSTS at the end of a command unsets.        *)
KeepsGo == {AVAIL, EXPECT}
KeepsAvail == {GO, EXPECT}
EndOfCommand == {AVAIL, GO, EXPECT}

(* transfered_bytes = 0, whatever transaction the handler is in, and the   *)
(* call of fixSTS that ends the command.                                   *)
EndXfer ==
  /\ pc = "EndXfer"
  /\ transfered_bytes' = 0
  /\ CallFixSTS({READY}, EndOfCommand, "ChkValid")
  /\ UNCHANGED <<sts, fifoVars, value, executed>>

(* TIS_init on the path of an oversized command, store by store.  It       *)
(* leaves fifo_fill and the static value of fixSTS alone and stages one    *)
(* more reply byte.                                                        *)
InitIsRead ==
  /\ pc = "InitIsRead"
  /\ isRead' = FALSE
  /\ Goto("InitNbytes")
  /\ UNCHANGED <<sts, fifo_rsp_max, nbytes, addrbytes, lastbyte, address,
                 transfered_bytes, idx, tx>>

InitNbytes ==
  /\ pc = "InitNbytes"
  /\ nbytes' = 0
  /\ Goto("InitLastbyte")
  /\ UNCHANGED <<sts, fifo_rsp_max, isRead, addrbytes, lastbyte, address,
                 transfered_bytes, idx, tx>>

InitLastbyte ==
  /\ pc = "InitLastbyte"
  /\ lastbyte' = FALSE
  /\ Goto("InitAddress")
  /\ UNCHANGED <<sts, fifo_rsp_max, isRead, nbytes, addrbytes, address,
                 transfered_bytes, idx, tx>>

InitAddress ==
  /\ pc = "InitAddress"
  /\ address' = {}
  /\ Goto("InitAddrbytes")
  /\ UNCHANGED <<sts, fifo_rsp_max, isRead, nbytes, addrbytes, lastbyte,
                 transfered_bytes, idx, tx>>

InitAddrbytes ==
  /\ pc = "InitAddrbytes"
  /\ addrbytes' = 0
  /\ Goto("InitXfer")
  /\ UNCHANGED <<sts, fifo_rsp_max, isRead, nbytes, lastbyte, address,
                 transfered_bytes, idx, tx>>

InitXfer ==
  /\ pc = "InitXfer"
  /\ transfered_bytes' = 0
  /\ Goto("InitRspMax")
  /\ UNCHANGED <<sts, fifo_rsp_max, isRead, nbytes, addrbytes, lastbyte, address,
                 idx, tx>>

InitRspMax ==
  /\ pc = "InitRspMax"
  /\ fifo_rsp_max' = 0
  /\ Goto("InitClear")
  /\ UNCHANGED <<sts, frameVars, idx, tx>>

(* memset clears the four status bytes one after the other.                *)
InitClear ==
  /\ pc = "InitClear"
  /\ sts' = [sts EXCEPT ![idx] = Zero]
  /\ IF idx < 3
     THEN idx' = idx + 1 /\ UNCHANGED pc
     ELSE idx' = 0 /\ Goto("InitSts")
  /\ UNCHANGED <<fifo_rsp_max, frameVars, tx>>

InitSts ==
  /\ pc = "InitSts"
  /\ sts' = [sts EXCEPT ![0] = {VALID, READY}]
  /\ Goto("InitReply")
  /\ UNCHANGED <<fifo_rsp_max, frameVars, idx, tx>>

InitReply ==
  /\ pc = "InitReply"
  /\ Push(Zero)
  /\ Goto("ChkValid")
  /\ UNCHANGED <<sts, fifo_rsp_max, frameVars, idx>>

TISInit ==
  /\ \/ InitIsRead \/ InitNbytes \/ InitLastbyte \/ InitAddress \/ InitAddrbytes
     \/ InitXfer \/ InitRspMax \/ InitClear \/ InitSts \/ InitReply
  /\ UNCHANGED <<fifo, fifo_fill, value, reg, call, executed, rxne>>

(* The steps of main but for TIS_init touch neither the parser's state nor *)
(* the SPI queues, transfered_bytes excepted.                              *)
MainStep ==
  /\ \/ FixLoad \/ FixStore \/ ChkValid \/ ChkGo \/ ReadSize \/ Execute
     \/ ResetFill \/ SetMax \/ LoadGo \/ ClearGo
     \/ RspLoop \/ EndFill \/ EndMax \/ EndXfer
  /\ UNCHANGED <<isRead, nbytes, addrbytes, lastbyte, address, spiVars>>

Main == (MainStep \/ TISInit) /\ UNCHANGED hostVars

-----------------------------------------------------------------------------
(* The host.  It clocks the next byte once the handler is done with the    *)
(* previous one, and trusts nothing but what it reads from the registers.  *)

HostClock ==
  /\ pos < 4 + txn.len /\ ~rxne
  /\ pos' = pos + 1
  /\ rxne' = TRUE
  /\ tx' = IF tx = <<>> THEN tx ELSE Tail(tx)
  /\ reply' = IF txn.rd /\ pos >= 4
              THEN Append(reply, IF tx = <<>> THEN Zero ELSE Head(tx))
              ELSE reply
  /\ UNCHANGED <<sts, fifoVars, frameVars, mainVars, phase, k, off, txn, retries,
                 answers>>

(* The host's next transaction, for byte o of command or response j.  The  *)
(* pieces of a response are collected in reply.                            *)
Begin(ph, j, o) ==
  /\ phase' = ph /\ k' = j /\ off' = o
  /\ txn' = TxnOf(ph, j, o)
  /\ pos' = 0
  /\ reply' = IF ph = "fetch" /\ o > 0 THEN reply ELSE <<>>

(* A transaction is over when its last byte has been handled.              *)
Complete == pos = 4 + txn.len /\ ~rxne

HostProbe == phase = "probe" /\ Begin(FirstPhase, k, 0) /\ UNCHANGED <<retries, answers>>

HostReady == phase = "ready" /\ Begin("check", k, 0) /\ UNCHANGED <<retries, answers>>

(* Wait for a valid status that says ready and no data left.               *)
HostCheck ==
  /\ phase = "check"
  /\ IF {VALID, READY} \subseteq reply[1] /\ AVAIL \notin reply[1]
     THEN Begin("load", k, 0)
     ELSE Begin("check", k, 0)
  /\ UNCHANGED <<retries, answers>>

HostLoad ==
  /\ phase = "load"
  /\ IF off + txn.len < CmdLen THEN Begin("load", k, off + txn.len) ELSE Begin("go", k, 0)
  /\ UNCHANGED <<retries, answers>>

HostGo == phase \in {"go", "again"} /\ Begin("poll", k, off) /\ UNCHANGED <<retries, answers>>

(* Wait for a valid status that says data available, MaxPolls times.       *)
HostPoll ==
  /\ phase = "poll"
  /\ IF {VALID, AVAIL} \subseteq reply[1]
     THEN Begin("fetch", k, 0)
     ELSE /\ MaxPolls = 0 \/ off < MaxPolls
          /\ Begin("poll", k, IF MaxPolls = 0 THEN 0 ELSE off + 1)
  /\ UNCHANGED <<retries, answers>>

(* The command a response answers, 0 for anything else.                    *)
Decode(bytes) ==
  IF \E j \in 1..NumCmds : bytes = [i \in 1..RspLen |-> RspByte(j, i - 1)]
  THEN CHOOSE j \in 1..NumCmds : bytes = [i \in 1..RspLen |-> RspByte(j, i - 1)]
  ELSE 0

HostFetch ==
  /\ phase = "fetch"
  /\ UNCHANGED retries
  /\ IF off + txn.len < RspLen
     THEN Begin("fetch", k, off + txn.len) /\ UNCHANGED answers
     ELSE /\ answers' = Append(answers, Decode(reply))
          /\ IF k < NumCmds
             THEN Begin(FirstPhase, k + 1, 0)
             ELSE phase' = "off" /\ UNCHANGED <<k, off, txn, pos, reply>>

(* A valid status with neither tpmGo nor dataAvail looks like a tpmGo that *)
(* was lost: src/test/sh/bug.sh repeats the write.                         *)
HostRetry ==
  /\ phase = "poll" /\ retries < MaxRetries
  /\ VALID \in reply[1] /\ AVAIL \notin reply[1] /\ GO \notin reply[1]
  /\ retries' = retries + 1
  /\ Begin("again", k, off)
  /\ UNCHANGED answers

HostTurn ==
  /\ Complete
  /\ \/ HostProbe \/ HostReady \/ HostCheck \/ HostLoad \/ HostGo
     \/ HostPoll \/ HostRetry \/ HostFetch
  /\ UNCHANGED <<sts, fifoVars, frameVars, mainVars, spiVars>>

Host == HostClock \/ HostTurn

-----------------------------------------------------------------------------
Next == Isr \/ Main \/ Host

Spec == Init /\ [][Next]_vars

(* main's loop never blocks, an interrupt is eventually taken, and a host  *)
(* that waits for an answer keeps polling.                                 *)
Fairness == WF_vars(Isr) /\ WF_vars(Main) /\ WF_vars(Host)

FairSpec == Spec /\ Fairness

-----------------------------------------------------------------------------
(* Properties.                                                             *)

ByteValue == SUBSET Int

Txns == {t \in [rd : BOOLEAN, len : 1..64, reg : Known, vals : Seq(ByteValue)] :
           Len(t.vals) = t.len}

InitLabels == {"InitIsRead", "InitNbytes", "InitLastbyte", "InitAddress", "InitAddrbytes",
               "InitXfer", "InitRspMax", "InitClear", "InitSts", "InitReply"}

Labels == {"ChkValid", "ChkGo", "ReadSize", "Execute", "ResetFill", "SetMax",
           "LoadGo", "ClearGo", "RspLoop", "EndFill", "EndMax", "EndXfer",
           "FixLoad", "FixStore"} \cup InitLabels

Phases == {"probe", "ready", "check", "load", "go", "again", "poll", "fetch", "off"}

Handled == IF rxne THEN pos - 1 ELSE pos

(* Payload bytes of the transaction the handler has accessed so far: the   *)
(* first one of a read goes with the third address byte.                   *)
Accessed ==
  IF txn.rd
  THEN IF Handled < 4 THEN 0 ELSE IF Handled - 3 > txn.len THEN txn.len ELSE Handled - 3
  ELSE IF Handled < 5 THEN 0 ELSE Handled - 4

FrameTypes ==
  /\ isRead \in BOOLEAN /\ lastbyte \in BOOLEAN
  /\ nbytes \in 0..64 /\ addrbytes \in 0..3
  /\ address \in ByteValue /\ transfered_bytes \in Nat

RegisterTypes ==
  /\ sts \in [0..3 -> ByteValue]
  /\ fifo \in [0..BufSize - 1 -> ByteValue]
  /\ fifo_fill \in Nat /\ fifo_rsp_max \in Nat
  /\ tx \in Seq(ByteValue)

MainTypes ==
  /\ pc \in Labels
  /\ value \in ByteValue /\ reg \in ByteValue
  /\ idx \in 0..3
  /\ call \in [set : ByteValue, unset : ByteValue, ret : {"ChkValid", "ChkGo", "RspLoop"}]
  /\ executed \in Seq(Nat)

HostTypes ==
  /\ phase \in Phases /\ k \in 1..NumCmds /\ off \in Nat
  /\ txn \in Txns
  /\ pos \in 0..4 + txn.len /\ retries \in Nat
  /\ rxne \in BOOLEAN /\ (rxne => pos > 0)
  /\ reply \in Seq(ByteValue) /\ answers \in Seq(Nat)
  /\ phase = "load" => off < CmdLen
  /\ phase = "fetch" => off < RspLen

(* Types.  The fields of g_TIS stay in the range the C types and the       *)
(* handler's arithmetic leave them: nbytes never wraps below 0; the host   *)
(* is always within its command or response.                               *)
TypeOK == FrameTypes /\ RegisterTypes /\ MainTypes /\ HostTypes

(* The handler reads the host's byte stream in frame: after every byte it  *)
(* knows how many payload bytes are left, how many address bytes it has,   *)
(* the direction and the register of the transaction the host is making.   *)
InFrame ==
  /\ nbytes = (IF Handled = 0 THEN 0 ELSE txn.len - Accessed)
  /\ nbytes > 0 =>
       /\ isRead = txn.rd
       /\ addrbytes = (IF Handled < 4 THEN Handled - 1 ELSE 3)
       /\ address = AddressAfter(txn.reg, addrbytes)
  /\ lastbyte <=> txn.rd /\ Handled = 3 + txn.len
  /\ lastbyte => isRead

(* One reply byte is staged for every byte the host clocks, except for the *)
(* first payload byte of a write, whose reply the host ignores.            *)
ReplyStaged ==
  Len(tx) = IF rxne \/ (~txn.rd /\ Handled = 4) THEN 0 ELSE 1

(* The buffer pointer follows the host through a command and a response,   *)
(* over all their transactions: main never moves it in between.            *)
FifoTracksHost ==
  /\ phase = "load" => fifo_fill = off + Accessed
  /\ phase = "fetch" /\ off + Accessed < RspLen => fifo_fill = off + Accessed

(* What is executed is the command the host last submitted, whole, and     *)
(* each command is executed once.                                          *)
CommandIntact ==
  pc = "Execute" => Request = k /\ executed = [i \in 1..k - 1 |-> i]

(* A host that saw commandReady finds main in its polling loop, with no go *)
(* bit left over from the previous command, not even in fixSTS.            *)
ReadyIsIdle ==
  phase = "load" =>
    /\ pc \in {"ChkValid", "ChkGo", "FixLoad", "FixStore"}
    /\ GO \notin value \cup sts[0] \cup reg

(* dataAvail stays up until the host has read the whole response.          *)
AvailUntilRead ==
  phase = "fetch" /\ off + Accessed < RspLen => AVAIL \in sts[0]

(* A host that asks for commandReady eventually may send its command: the  *)
(* loop notices the cleared stsValid and the end of the last response.     *)
BackToReady ==
  \A j \in 1..NumCmds :
    (phase \in {"ready", "check"} /\ k = j) ~> (phase = "load" /\ k = j)

(* A command counts as submitted from the moment the handler has accessed  *)
(* the first byte of the host's tpmGo.                                     *)
Submitted ==
  LET written == \/ phase \in {"again", "poll", "fetch", "off"}
                 \/ phase = "go" /\ Accessed > 0
  IN [j \in 1..(IF written THEN k ELSE k - 1) |-> j]

Service == INSTANCE TpmService WITH submitted <- Submitted

(* The firmware implements the service: in this order, once each, and the  *)
(* answer that reaches the host is the answer to its command.              *)
ImplementsService == Service!Spec

(* Has the host submitted a command that main refuses?                     *)
Refused == \E j \in Oversized : j <= Len(Submitted)

(* The safety part of the same statement, for hosts whose tpmGo may be     *)
(* lost: whatever is executed and answered still is what was submitted.    *)
(* Once a command was refused nothing is executed any more, whatever the   *)
(* reset parser makes of the host's bytes and the host of the replies.     *)
ServiceSafety ==
  Service!Init /\ [][Service!Next \/ (Refused /\ UNCHANGED executed)]_Service!vars
=============================================================================
