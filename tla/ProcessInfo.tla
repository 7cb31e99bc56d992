------------------------------ MODULE ProcessInfo ------------------------------
(* What ProcessInfo makes of the texts of /proc. *)
EXTENDS Integers, Sequences, SequencesExt

(* procname(): the name of a process is between the first "(" and the last *)
(* ")" of its stat line.                                                   *)
procname(stat) ==
  LET lp == SelectInSeq(stat, LAMBDA c : c = "(")
      rp == SelectLastInSeq(stat, LAMBDA c : c = ")")
  IN  IF lp # 0 /\ rp # 0 /\ lp < rp THEN SubSeq(stat, lp + 1, rp - 1) ELSE <<>>

=============================================================================
