------------------------------ MODULE MCMultest ------------------------------
(***************************************************************************)
(* The program multest: its multiplications on the CPU's wide accumulator, *)
(* the field arithmetic of the SIKE library linked to it, over a prime of  *)
(* eight bits in digits of two, the library's parameters at their full     *)
(* size, the printing of cycle counts, and the course of all the test      *)
(* programs, of which multest is one.  These share no state, so that a     *)
(* behaviour does one of the five.                                         *)
(***************************************************************************)
EXTENDS Comba, Programs

(* A prime of the form 4^3 * 3 - 1: like p434 it is 3 modulo 4, its lowest *)
(* digits are all ones, and the field words hold sixteen times as much.    *)
SmallPrime == 191
SmallInverse == 9      \* of 4^6, modulo the prime
Small_p    == <<3, 3, 3, 2, 0, 0>>
Small_p1   == <<0, 0, 0, 3, 0, 0>>
Small_px2  == <<2, 3, 3, 1, 1, 0>>
Small_R2   == <<2, 3, 1, 2, 0, 0>>
(* (191 - 3) / 4 = 47 = 2^5 + 15.                                          *)
SmallChain == [table |-> <<1, 1, 1, 1, 1, 1, 1>>, windows |-> <<<<5, 7>>>>]
OneGiven   == <<0, 190>>
SmallGiven == {OneGiven, <<100, 3>>}

CONSTANT MaxCalls   \* bound: operations on field elements

PrintedNumbers == [1..4 -> {0, 10, 39321, 65535}]

VARIABLES
  job,                             \* what the program does
  op, x, y, out, calls,            \* the variables of FieldCalls,
  task, step, power, pending,      \* of P434
  number, left, place, outs        \* of PrintInt

Field    == INSTANCE FieldCalls WITH
              RADIX <- 2, NWORDS_FIELD <- 6, p434_ZERO_WORDS <- 3,
              p434 <- Small_p, p434p1 <- Small_p1, p434x2 <- Small_px2,
              Montgomery_R2 <- Small_R2, Chain <- SmallChain, Given <- SmallGiven
Real     == INSTANCE P434
Printing == INSTANCE PrintInt WITH Printed <- PrintedNumbers, c <- left, i <- place

fieldVars == <<op, x, y, out, calls>>
taskVars  == <<task, step, power, pending>>
printVars == <<number, left, place, outs>>

MCInit ==
  /\ job \in {"multiply", "field", "parameters", "print", "program"}
  /\ Init
  /\ IF job = "field" THEN Field!FieldInit
     ELSE Field!Starts(OneGiven, OneGiven)
  /\ IF job = "parameters" THEN Real!TaskInit
     ELSE task = "none" /\ step = 0 /\ power = <<>> /\ pending = <<>>
  /\ IF job = "print" THEN Printing!PrintInit
     ELSE number = <<>> /\ left = <<>> /\ place = 0 /\ outs = <<>>
  /\ ProgramInit /\ (job # "program" => firmware = "multest" /\ answered = 0 /\ OUTPUT = 0)

Multiplies == job = "multiply" /\ Next /\ UNCHANGED <<job, fieldVars, taskVars, printVars, programVars>>
Calculates == job = "field" /\ Field!FieldNext /\ UNCHANGED <<job, vars, taskVars, printVars, programVars>>
Uses       == job = "parameters" /\ Real!TaskNext /\ UNCHANGED <<job, vars, fieldVars, printVars, programVars>>
Prints     == job = "print" /\ Printing!Round /\ UNCHANGED <<job, vars, fieldVars, taskVars, programVars>>
Performs   == job = "program" /\ ProgramNext /\ UNCHANGED <<job, vars, fieldVars, taskVars, printVars>>

MCNext == Multiplies \/ Calculates \/ Uses \/ Prints \/ Performs
MCSpec == MCInit /\ [][MCNext]_<<job, vars, fieldVars, taskVars, printVars, programVars>>

-----------------------------------------------------------------------------
(* Properties.                                                             *)

(* The elements that the digits stand for; in the other jobs, which leave  *)
(* the digits alone, always those at the start.                            *)
Value(n) == (Field!Number(n) * SmallInverse) % SmallPrime
ValueOf(e) == IF job = "field" THEN <<Value(e[1]), Value(e[2])>> ELSE OneGiven
Service == INSTANCE FieldService WITH
  Prime <- SmallPrime, Given <- SmallGiven, x <- ValueOf(x), y <- ValueOf(y),
  out <- IF job = "field" THEN <<Field!Number(out[1]), Field!Number(out[2])>> ELSE <<0, 0>>

(* Whatever is calculated from whatever was returned before, fpx.c         *)
(* calculates exactly: representatives of up to twice the prime, that one  *)
(* included, which fpneg makes of 0, are never taken for another element,  *)
(* no carry, borrow or skipped product is missed, and what from_fp2mont    *)
(* gives out is below the prime.                                           *)
ImplementsField == Service!Spec

(* The constants of P434.c, which nothing in multest computes or tests,    *)
(* fit each other and the arithmetic of fpx.c; so do the chains for all    *)
(* four primes, and the strategies.                                        *)
ParametersConsistent == job = "parameters" => Real!ParametersConsistent

(* print_int prints its number: what is left, followed by the digits       *)
(* written, is the number in every round, and one correction of the        *)
(* approximate quotient is always enough.                                  *)
PrintsDecimal == job = "print" => Printing!PrintsDecimal
=============================================================================
