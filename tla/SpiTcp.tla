------------------------------- MODULE SpiTcp -------------------------------
(***************************************************************************)
(* The bridge of HSMSim between TCP clients and the SPI slave: the thread  *)
(* that accepts connections and replaces the two stream variables, and the *)
(* simulation's thread, which exchanges a byte at a time with the slave,   *)
(* whose pins and shift register are SpinalHDL's.                          *)
(*                                                                         *)
(* A client is its number in the order of the connections, 0 is null; the  *)
(* threads' stores and loads are taken in program order.  "at" is the next *)
(* statement of the simulation's thread.                                   *)
(***************************************************************************)
EXTENDS Integers, Sequences, SequencesExt

CONSTANTS
  MaxClients,   \* bound: connections
  MaxBytes,     \* bound: bytes that a client sends
  Patterns,     \* bytes tried, as sequences of bits, highest first
  EndOfStream   \* the byte that a read of -1 becomes: all ones

Client == 1..MaxClients
BitsOfByte == 8
Bytes == [1..BitsOfByte -> {0, 1}]

ASSUME ClientsAssumption == MaxClients \in Nat /\ MaxBytes \in Nat
ASSUME BytesAssumption == Patterns \subseteq Bytes /\ EndOfStream = [n \in 1..BitsOfByte |-> 1]

VARIABLES
  connections, storing,      \* how many so far; between the thread's two stores
  inputStream, outputStream, \* whose streams these are
  sent, closed,              \* bytes in the stream of each client; has it closed?
  at, from, buffer, out,     \* the thread: byte being exchanged, whose it is, reply so far
  ss, shifter,               \* the slave's select line and its shift register
  wanted,                    \* history: the replies that the slave was given to send
  received, answers          \* history: bytes the slave took, replies written

serverVars == << connections, storing, inputStream, outputStream >>
clientVars == << sent, closed >>
threadVars == << at, from, buffer, out >>
slaveVars  == << ss, shifter, wanted, received >>
bridgeVars == << serverVars, clientVars, threadVars, slaveVars, answers >>

----------------------------------------------------------------------------
BridgeInit ==
  /\ connections = 0 /\ storing = FALSE /\ inputStream = 0 /\ outputStream = 0
  /\ sent = [c \in Client |-> << >>] /\ closed = [c \in Client |-> FALSE]
  /\ at = "sleep" /\ from = 0 /\ buffer = << >> /\ out = << >>
  /\ ss = TRUE /\ \E p \in Patterns : shifter = p /\ wanted = << p >>
  /\ received = << >> /\ answers = << >>

(* The accepting thread.                                                   *)
StoresInput == inputStream' = connections' /\ UNCHANGED outputStream     \* mutant
StoresOutput == outputStream' = connections' /\ UNCHANGED inputStream

Accept ==
  /\ ~storing /\ connections < MaxClients
  /\ connections' = connections + 1 /\ storing' = TRUE
  /\ StoresOutput
  /\ UNCHANGED << clientVars, threadVars, slaveVars, answers >>

Stored ==
  /\ storing
  /\ storing' = FALSE
  /\ inputStream' = connections /\ outputStream' = connections
  /\ UNCHANGED << connections, clientVars, threadVars, slaveVars, answers >>

(* The clients.                                                            *)
Sends(c) ==
  /\ c <= connections /\ ~closed[c]
  /\ Len(SelectSeq(answers, LAMBDA r : r.from = c)) + Len(sent[c])
       + (IF from = c /\ at # "read" THEN 1 ELSE 0) < MaxBytes
  /\ \E p \in Patterns : sent' = [sent EXCEPT ![c] = Append(@, p)]
  /\ UNCHANGED << serverVars, closed, threadVars, slaveVars, answers >>

Closes(c) ==
  /\ c <= connections /\ ~closed[c]
  /\ closed' = [closed EXCEPT ![c] = TRUE]
  /\ UNCHANGED << serverVars, sent, threadVars, slaveVars, answers >>

----------------------------------------------------------------------------
(* The simulation's thread.                                                *)

Available == inputStream # 0 /\ sent[inputStream] # << >>

\* It looks for a byte, and sleeps when there is none.
Looks ==
  /\ at \in {"sleep", "loop"}
  /\ at' = IF Available THEN "fetch" ELSE "sleep"
  /\ at' # at
  /\ UNCHANGED << serverVars, clientVars, from, buffer, out, slaveVars, answers >>

\* It reads from the stream that the variable holds by then.
Fetches ==
  /\ at = "fetch"
  /\ at' = "read" /\ from' = inputStream
  /\ UNCHANGED << serverVars, clientVars, buffer, out, slaveVars, answers >>

\* That one may have nothing to read: then it waits for a byte or for the end.
ReadsByte ==
  /\ at = "read"
  /\ sent[from] # << >> \/ closed[from]
  /\ buffer' = IF sent[from] = << >> THEN EndOfStream ELSE Head(sent[from])
  /\ sent' = [sent EXCEPT ![from] = IF @ = << >> THEN @ ELSE Tail(@)]
  /\ at' = "shift" /\ out' = << >> /\ ss' = FALSE
  /\ UNCHANGED << serverVars, closed, from, shifter, wanted, received, answers >>

\* A period of the clock: MISO is sampled, MOSI set, the slave takes it at the
\* rising edge and shifts at the falling one.
SamplesLate(register, bit) == bit                          \* mutant
Samples(register, bit) == Head(register)
Shifts ==
  /\ at = "shift"
  /\ LET bit == buffer[Len(out) + 1]
     IN /\ out' = Append(out, Samples(shifter, bit))
        /\ shifter' = Append(Tail(shifter), bit)
  /\ at' = IF Len(out') = BitsOfByte THEN "deselect" ELSE "shift"
  /\ UNCHANGED << serverVars, clientVars, from, buffer, ss, wanted, received, answers >>

\* The slave keeps the byte and gets the next one to send.
Deselects ==
  /\ at = "deselect"
  /\ ss' = TRUE /\ received' = Append(received, [from |-> from, byte |-> shifter])
  /\ \E p \in Patterns : shifter' = p /\ wanted' = Append(wanted, p)
  /\ at' = "write"
  /\ UNCHANGED << serverVars, clientVars, from, buffer, out, answers >>

\* Writing to a client that has closed may fail, writing to null does; the
\* exception is caught outside the loop.
Fails == outputStream = 0 \/ closed[outputStream]
EndsTheThread == "ended"                                   \* mutant
AfterFailure == "sleep"
WritesReply ==
  /\ at = "write"
  /\ \/ outputStream # 0 /\ at' = "loop"
        /\ answers' = Append(answers, [from |-> from, to |-> outputStream, byte |-> out])
     \/ Fails /\ at' = AfterFailure
        /\ answers' = Append(answers, [from |-> from, to |-> 0, byte |-> out])
  /\ from' = 0
  /\ UNCHANGED << serverVars, clientVars, buffer, out, slaveVars >>

Server == Accept \/ Stored
Thread == Looks \/ Fetches \/ ReadsByte \/ Shifts \/ Deselects \/ WritesReply
BridgeNext == Server \/ Thread \/ \E c \in Client : Sends(c) \/ Closes(c)

BridgeSpec == BridgeInit /\ [][BridgeNext]_bridgeVars

----------------------------------------------------------------------------
\* Every byte that is clocked is answered once and in order, with what the slave
\* was given to send while it took the byte whole; the answer goes to the client
\* that sent the byte or to a later one, never to an earlier one, and is lost
\* only when that client has closed.
AnswersForward ==
  /\ \A i \in DOMAIN answers :
       /\ answers[i].byte = wanted[i] /\ answers[i].from = received[i].from
       /\ answers[i].to # 0 => answers[i].to >= answers[i].from
       /\ answers[i].to = 0 => closed[answers[i].from] \/ answers[i].from < connections
  /\ Len(answers) = Len(received) - (IF at = "write" THEN 1 ELSE 0)
  /\ at = "deselect" => shifter = buffer
  /\ ss <=> at \notin {"shift", "deselect"}

\* The last client is served: what it sends is clocked, unless the thread, which
\* looked at the stream of another client and then read from the one that had
\* replaced it, waits for a byte of an earlier client that stays connected.
WaitsForEarlier(c) == at = "read" /\ from < c /\ sent[from] = << >> /\ ~closed[from]
LastClientServed ==
  \A c \in Client :
    connections = c /\ sent[c] # << >> ~> sent[c] = << >> \/ connections > c \/ WaitsForEarlier(c)
=============================================================================
