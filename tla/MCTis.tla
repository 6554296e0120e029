-------------------------------- MODULE MCTis --------------------------------
(***************************************************************************)
(* Model checking of Tis.  Besides the properties of that module, the runs *)
(* check what comments of the firmware say of it; see the cfg files for    *)
(* the constants of each run.                                              *)
(***************************************************************************)
EXTENDS Tis

(* The handler reads from every header the direction and the length that   *)
(* the host has put into it.                                               *)
ASSUME HeaderAssumption ==
  \A n \in 1..64, rd \in BOOLEAN :
    LengthOf(Header(rd, n)) = n /\ (7 \in Header(rd, n) <=> rd)

(* main.c:102: a command whose size field exceeds the buffer is refused,   *)
(* also when the host repeats its tpmGo while TIS_init runs.               *)
NeverExecutesOversized == \A i \in DOMAIN executed : executed[i] \notin Oversized

(* tis.h:71: the host writes a 1 to tpmGo to cause the TPM to execute the  *)
(* command, so a command whose tpmGo the handler accessed is executed.     *)
GoExecutes ==
  \A j \in 1..NumCmds : (Len(Submitted) = j) ~> (Len(executed) >= j)

(* tis.h:70: dataAvail is cleared when all the data of the response has    *)
(* been returned, so no status the host reads afterwards shows it.         *)
NoLeftoverData == phase = "check" /\ Complete => AVAIL \notin reply[1]
=============================================================================
