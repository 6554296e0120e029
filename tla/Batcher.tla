------------------------------- MODULE Batcher -------------------------------
(***************************************************************************)
(* What StreamSlowdown promises, with no handshakes and no clock: words    *)
(* come in one at a time, and every Factor-th of them goes out together    *)
(* with the Factor - 1 before it, latest first.  A reset forgets the words *)
(* that have not gone out.                                                 *)
(***************************************************************************)
EXTENDS Integers, Sequences

CONSTANTS Words, Factor

VARIABLES accepted, batches   \* words taken in, batches given out

vars == <<accepted, batches>>

(* Words taken in since the last batch.                                    *)
Pending == Len(accepted) - Factor * Len(batches)

(* The batch that ends with the last word of s.                            *)
LatestFirst(s) == [i \in 0..Factor - 1 |-> s[Len(s) - i]]

Init == accepted = <<>> /\ batches = <<>>

Take(w) ==
  /\ Pending < Factor - 1
  /\ accepted' = Append(accepted, w)
  /\ UNCHANGED batches

Emit(w) ==
  /\ Pending = Factor - 1
  /\ accepted' = Append(accepted, w)
  /\ batches' = Append(batches, LatestFirst(accepted'))

Forget ==
  /\ accepted' = SubSeq(accepted, 1, Factor * Len(batches))
  /\ UNCHANGED batches

Next == Forget \/ \E w \in Words : Take(w) \/ Emit(w)

Spec == Init /\ [][Next]_vars
=============================================================================
