----------------------------- MODULE TpmService ------------------------------
(***************************************************************************)
(* What the HSM promises the host, with no registers and no interrupts:    *)
(* the host submits its commands one at a time, the TPM executes each one  *)
(* once and in order, and the host receives the answer to the command it   *)
(* submitted.                                                              *)
(***************************************************************************)
EXTENDS Naturals, Sequences

CONSTANT NumCmds   \* commands the host submits before it stops

VARIABLES submitted, executed, answers   \* sequences of commands

vars == <<submitted, executed, answers>>

Init == submitted = <<>> /\ executed = <<>> /\ answers = <<>>

(* One command at a time: the last one must have been answered.            *)
Submit ==
  /\ submitted = answers /\ Len(submitted) < NumCmds
  /\ submitted' = Append(submitted, Len(submitted) + 1)
  /\ UNCHANGED <<executed, answers>>

Execute ==
  /\ Len(executed) < Len(submitted)
  /\ executed' = Append(executed, submitted[Len(executed) + 1])
  /\ UNCHANGED <<submitted, answers>>

Answer ==
  /\ Len(answers) < Len(executed)
  /\ answers' = Append(answers, executed[Len(answers) + 1])
  /\ UNCHANGED <<submitted, executed>>

Next == Submit \/ Execute \/ Answer

(* The TPM serves what was submitted; the host need not submit anything.   *)
Spec == Init /\ [][Next]_vars /\ WF_vars(Execute) /\ WF_vars(Answer)
=============================================================================
