------------------------------ MODULE Programs ------------------------------
(***************************************************************************)
(* The test programs beside the HSM's firmware, from main to the verdict   *)
(* of the simulation that runs them, statement by statement.  What they    *)
(* print and compute is modelled elsewhere; here it is what they claim of  *)
(* themselves that counts: the times they measure with two reads of a      *)
(* counter that goes on, and whether they are done.                        *)
(***************************************************************************)
EXTENDS Integers, Sequences

CONSTANTS
  Half,     \* one more than mcycle and mcycleh can count, 2^32
  Gap       \* bound: cycles from the read of one to the read of the other

ASSUME CounterAssumption == Half \in Nat \ {0} /\ Gap \in 1..Half

VARIABLES
  firmware, at,            \* the program and its next statement
  start, stop,             \* the variables of main
  begun, ended,            \* history: when cpucycles was called for them
  answered,                \* the byte that hello_world_spi has echoed last
  OUTPUT, OUTPUT_ENABLE,   \* the registers of GPIO_A; only the second has a reset
  outcome                  \* of the simulation

times == << start, stop, begun, ended >>
pins == << OUTPUT, OUTPUT_ENABLE >>
programVars == << firmware, at, times, answered, pins, outcome >>

Counts == Half * Half
Instants == 0..(Counts - 1)

\* Two reads, the lower half first; it calls nothing in between, but an instruction
\* may have to be fetched.
HighFirst(t, gap) == (t \div Half) * Half + ((t + gap) % Half)     \* mutant
cpucycles(t, gap) == (((t + gap) % Counts) \div Half) * Half + (t % Half)

----------------------------------------------------------------------------
(* The programs.  print, println, phex, hex_print and print_int of a       *)
(* number that is no time are "print".  Interrupts, which hello_world      *)
(* turns off and the others take, change nothing: irqCallback is empty.    *)

Texts(n) == [k \in 1..n |-> "print"]
Repeated(n, statements) ==
  [k \in 1..(n * Len(statements)) |-> statements[((k - 1) % Len(statements)) + 1]]
Passes(first, below, step) == (below - first + step - 1) \div step
Succeeds == << "OUTPUT = 0", "OUTPUT_ENABLE = 1" >>

hello_world == Texts(3) \o Succeeds

\* Nothing in the loop counts the bytes that should end it.
count == 0
hello_world_spi == << "OUTPUT_ENABLE = 0", "print", "echo", "print" >> \o Succeeds

\* A block is encrypted between the reads.  A comparison that fails prints a text
\* more, and the program goes on to the same end.
Block(vectors) ==
  Repeated(vectors, << "start", "work", "stop", "print time" >> \o Texts(5) \o << "compare" >> \o Texts(1))
aes_test == Texts(1) \o Block(4) \o Succeeds
aes_masked_test == Texts(2) \o Block(5) \o Succeeds

\* It leaves the pins alone: the two statements are comments.
Measured == << "start", "work", "stop", "print start", "print stop", "print time" >>
multest ==
  Texts(1) \o Measured \o Measured \o Texts(10) \o << "start", "work", "stop", "print time" >> \o Texts(1)

itoa_test == Texts(20)
ecp5hw ==
  Texts(3) \o itoa_test \o Texts(3 * Passes(1, 1000, 67) * Passes(1, 100, 6)) \o Succeeds

Main ==
  [hello_world |-> hello_world, hello_world_spi |-> hello_world_spi, aes_test |-> aes_test,
   aes_masked_test |-> aes_masked_test, multest |-> multest, ecp5hw |-> ecp5hw]

----------------------------------------------------------------------------
Returned == at > Len(Main[firmware])
Statement == IF Returned THEN "loop" ELSE Main[firmware][at]
Continues == at' = at + 1 /\ UNCHANGED << firmware, outcome >>

ProgramInit ==
  /\ firmware \in DOMAIN Main /\ at = 1
  /\ start = 0 /\ stop = 0 /\ begun = 0 /\ ended = 0
  /\ answered \in {0, 1}
  /\ OUTPUT \in {0, 1} /\ OUTPUT_ENABLE = 0
  /\ outcome = "running"

\* Printing and working take any time, which shows at the next reading.
Works ==
  /\ Statement \in {"print", "work", "compare", "print start", "print stop", "print time"}
  /\ Continues /\ UNCHANGED << times, answered, pins >>

ReadsStart ==
  /\ Statement = "start"
  /\ begun' \in Instants /\ \E gap \in 1..Gap : start' = cpucycles(begun', gap)
  /\ Continues /\ UNCHANGED << stop, ended, answered, pins >>
ReadsStop ==
  /\ Statement = "stop"
  /\ ended' \in Instants /\ \E gap \in 1..Gap : stop' = cpucycles(ended', gap)
  /\ Continues /\ UNCHANGED << start, begun, answered, pins >>

SetsOutput ==
  /\ Statement = "OUTPUT = 0" /\ OUTPUT' = 0
  /\ Continues /\ UNCHANGED << times, answered, OUTPUT_ENABLE >>
SetsOutputEnable ==
  /\ \/ Statement = "OUTPUT_ENABLE = 0" /\ OUTPUT_ENABLE' = 0
     \/ Statement = "OUTPUT_ENABLE = 1" /\ OUTPUT_ENABLE' = 1
  /\ Continues /\ UNCHANGED << times, answered, OUTPUT >>

\* A byte that has come over SPI is written back.
Echoes ==
  /\ Statement = "echo"
  /\ answered' \in {0, 1}
  /\ at' = IF count = 13 THEN at + 1 ELSE at
  /\ UNCHANGED << firmware, outcome, times, pins >>

\* The simulation looks at the second pin in every cycle, at the first some cycles
\* later.
Judges ==
  /\ OUTPUT_ENABLE = 1
  /\ outcome' = IF OUTPUT = 1 THEN "failure" ELSE "success"
  /\ UNCHANGED << firmware, at, times, answered, pins >>

ProgramNext ==
  /\ outcome = "running"
  /\ \/ Works \/ ReadsStart \/ ReadsStop \/ SetsOutput \/ SetsOutputEnable \/ Echoes \/ Judges

ProgramSpec == ProgramInit /\ [][ProgramNext]_programVars

----------------------------------------------------------------------------
\* What a program reports is true.  A time it prints is the time between its two
\* calls of cpucycles, except that each call is 2^32 cycles ahead when the lower half
\* overflows between the two reads, which nothing notices; and the simulation ends
\* with success, and only when the program has come to its end, although the register
\* it is judged by has no defined value before it is written.
Overflows(t) == (t % Half) + Gap >= Half
Ahead(read, t) == (read - t) % Counts
ReportsTruly ==
  /\ Statement = "print time" =>
       /\ Ahead(start, begun) \in {0, Half} /\ Ahead(stop, ended) \in {0, Half}
       /\ ~Overflows(begun) /\ ~Overflows(ended) => (stop - start) % Counts = (ended - begun) % Counts
  /\ outcome # "failure"
  /\ outcome = "success" => Returned
=============================================================================
