----------------------------- MODULE SimConsole -----------------------------
(***************************************************************************)
(* The serial console of HSMSim: what the firmware prints goes through the *)
(* UART and a software decoder, what the terminal sends through a software *)
(* encoder and the UART; the simulation ends a while after the firmware    *)
(* has asked for it.  The UART itself is SpinalHDL's: a queue, a shift     *)
(* register and a divider of the clock without a fraction, so that its     *)
(* bits are 100 cycles long and not 104 1/6.                               *)
(*                                                                         *)
(* A step is the next event: a timer that has run down, or the firmware.   *)
(* Times are in sixths of a clock cycle.                                   *)
(***************************************************************************)
EXTENDS Integers, Sequences, SequencesExt, FiniteSetsExt

CONSTANTS
  Text,     \* the bytes, sets of the numbers of their bits
  Ends      \* does the firmware end the simulation after printing?

ASSUME TextAssumption == Text \in Seq(SUBSET (0..7))

VARIABLES
  direction,          \* "print" or "type"
  written,            \* bytes given to the sender so far
  queue, frame, txAt, \* the sender: its queue, bits left to send, time to the next one
  line,               \* TRUE is high
  rx, byte, bit, rxAt,  \* the receiver: what it does next, its byte and bit, the time to it
  got, errors,        \* what it took, and the frame errors
  exitAt              \* time to the end: Never before the firmware has asked for it

txVars == << queue, frame, txAt >>
rxVars == << rx, byte, bit, rxAt, got, errors >>
consoleVars == << direction, written, txVars, line, rxVars, exitAt >>

Sixths == 6
ClockHz == 12000000
Baud == 115200
FifoDepth == 16

\* 1 + 3 + 1 samples for a bit, each of a whole number of cycles.
SamplesPerBit == 5
UartBit == SamplesPerBit * (ClockHz \div (Baud * SamplesPerBit)) * Sixths
uartBaudPeriod == (Sixths * ClockHz) \div Baud

ExitDelay == 50000 * Sixths
Never == -1
Ended == exitAt = 0

\* Who sends and who receives.
SendBit == IF direction = "print" THEN UartBit ELSE uartBaudPeriod
ReceiveBit == IF direction = "print" THEN uartBaudPeriod ELSE UartBit

----------------------------------------------------------------------------
(* The sender: start bit, eight bits from the lowest, stop bit.            *)
Bits(b) == << FALSE >> \o [n \in 1..8 |-> n - 1 \in b] \o << TRUE >>

Sending == frame # << >>
FrameNext ==
  IF Len(frame) > 1 THEN Tail(frame)
  ELSE IF queue # << >> THEN Bits(Head(queue)) ELSE << >>

\* A bit is over; after the last one the next byte follows at once.
SendsBit ==
  /\ frame' = FrameNext
  /\ queue' = IF Len(frame) <= 1 /\ queue # << >> THEN Tail(queue) ELSE queue
  /\ line' = IF FrameNext = << >> THEN TRUE ELSE Head(FrameNext)
  /\ txAt' = IF FrameNext = << >> THEN Never ELSE SendBit

(* The firmware's uart_write waits for room in the queue; the terminal has *)
(* room for everything.                                                    *)
IgnoresQueue == 1                                         \* mutant
uart_writeAvailability == IF direction = "type" THEN 1 ELSE FifoDepth - Len(queue)

\* A byte for a full queue of the UART is lost.
Accepted(b) == IF direction = "type" \/ Len(queue) < FifoDepth THEN Append(queue, b) ELSE queue

----------------------------------------------------------------------------
(* The receiver, statement by statement of the decoder.                    *)
HalfBit == ReceiveBit \div 2
WholeBit == ReceiveBit                                    \* mutant
FirstWait == HalfBit

Receives ==
  CASE rx = "start" ->
         IF line THEN rx' = "wait" /\ rxAt' = Never /\ errors' = errors + 1 /\ UNCHANGED << byte, bit, got >>
         ELSE rx' = "data" /\ rxAt' = ReceiveBit /\ byte' = {} /\ bit' = 0 /\ UNCHANGED << got, errors >>
    [] rx = "data" ->
         /\ byte' = IF line THEN byte \cup {bit} ELSE byte
         /\ bit' = bit + 1 /\ rxAt' = ReceiveBit
         /\ rx' = IF bit = 7 THEN "stop" ELSE "data"
         /\ UNCHANGED << got, errors >>
    [] rx = "stop" ->
         /\ got' = IF line THEN Append(got, byte) ELSE got
         /\ errors' = IF line THEN errors ELSE errors + 1
         /\ rx' = "wait" /\ rxAt' = Never /\ UNCHANGED << byte, bit >>

\* It waits for the line to fall.
Falls == rx = "wait" /\ ~line

----------------------------------------------------------------------------
ConsoleInit ==
  /\ direction \in {"print", "type"}
  /\ written = 0 /\ queue = << >> /\ frame = << >> /\ txAt = Never /\ line = TRUE
  /\ rx = "wait" /\ byte = {} /\ bit = 0 /\ rxAt = Never /\ got = << >> /\ errors = 0
  /\ exitAt = Never

\* The firmware or the terminal, at any time, writes the next byte; a sender that
\* is idle starts at once.
WritesByte ==
  /\ written < Len(Text) /\ uart_writeAvailability > 0 /\ ~Falls
  /\ written' = written + 1
  /\ IF ~Sending /\ queue = << >>
     THEN frame' = Bits(Text[written + 1]) /\ line' = FALSE /\ txAt' = SendBit /\ UNCHANGED queue
     ELSE queue' = Accepted(Text[written + 1]) /\ UNCHANGED << frame, line, txAt >>
  /\ UNCHANGED << direction, rxVars, exitAt >>

\* The firmware drives the pin that ends the simulation.
Exits ==
  /\ direction = "print" /\ Ends /\ written = Len(Text) /\ exitAt = Never
  /\ exitAt' = ExitDelay
  /\ UNCHANGED << direction, written, txVars, line, rxVars >>

Starts ==
  /\ Falls
  /\ rx' = "start" /\ rxAt' = FirstWait
  /\ UNCHANGED << direction, written, txVars, line, byte, bit, got, errors, exitAt >>

\* Time passes up to the next event; of two at the same time either may be first.
Timers == {t \in {txAt, rxAt, exitAt} : t >= 0}
Soonest == Min(Timers)
After(t) == IF t = Never THEN Never ELSE t - Soonest
Elapses ==
  /\ ~Falls /\ Timers # {} /\ ~Ended
  /\ exitAt' = After(exitAt)
  /\ \/ txAt = Soonest /\ SendsBit /\ rxAt' = After(rxAt) /\ UNCHANGED << rx, byte, bit, got, errors >>
     \/ rxAt = Soonest /\ Receives /\ txAt' = After(txAt) /\ UNCHANGED << queue, frame, line >>
     \/ exitAt = Soonest /\ txAt' = After(txAt) /\ rxAt' = After(rxAt)
        /\ UNCHANGED << queue, frame, line, rx, byte, bit, got, errors >>
  /\ UNCHANGED << direction, written >>

ConsoleNext == WritesByte \/ Exits \/ Starts \/ Elapses
ConsoleSpec == ConsoleInit /\ [][ConsoleNext]_consoleVars

----------------------------------------------------------------------------
\* Although the bits of one side are 4% longer than those of the other, every byte
\* arrives, in order, without a frame error, also when the bytes follow each other
\* without a pause; and the delay before the simulation ends is long enough for a
\* full queue: nothing that was printed is cut off.
ConsoleExact ==
  /\ errors = 0 /\ IsPrefix(got, Text)
  /\ Ended => got = Text
=============================================================================
